---- MODULE Spec2Model ----
(***************************************************************************)
(* kelindar/noise: the Simple Sequential Inhibition samplers (SSI1, SSI2), *)
(* their acceleration grid, the list-based samplers and the sparse         *)
(* projections (Sparse1, Sparse2, SparseFill1, SparseFill2, SparseFill3),  *)
(* as a state machine.                                                     *)
(*                                                                         *)
(* Coordinates are fixed-point: one tick is 1/(2*Res) of a unit, so a      *)
(* sub-cell of the grid (ssiCellSize = 0.5) is Res ticks and the minimum   *)
(* distance 1.0 is 2*Res ticks.  The hash that drives the jitter is an     *)
(* unknown function of (seed, cell, attempt): every value of Float32 in    *)
(* [0, 1] (the rounding of hash>>32 to float32 can reach 1.0) is a         *)
(* possible jitter, drawn from the tick values of [-0.5, 0.5].             *)
(***************************************************************************)
EXTENDS Integers, Sequences, FiniteSets, TLC

\* ---------------------------------------------------------------- bounds
Res == 3
MaxR == 2
MaxW == 5
MaxGap == 2
MaxR2 == 2

\* ------------------------------------------------------ program constants
ssiNeighborRadius == 2
Attempts1 == 3
Attempts2 == 2

VARIABLES cfg, pc, rad, order, pos, att, grid, pts, from, out, tried, stopped, hv

\* A call of a DeterministicRandom function (req) and what it gave (resp);
\* the hashing of a call's coordinates (hashing).
VARIABLES req, resp, hashing

ssiVars == <<cfg, pc, rad, order, pos, att, grid, pts, from, out, tried, stopped, hv>>
randVars == <<req, resp, hashing>>

\* The package's tables (pkg), the tables of a Simplex instance (simplex), how
\* far their construction is (build), and the evaluation of each caller (ev).
VARIABLES pkg, simplex, build, ev

simplexVars == <<pkg, simplex, build, ev>>

vars == <<cfg, pc, rad, order, pos, att, grid, pts, from, out, tried, stopped, hv,
          req, resp, hashing, pkg, simplex, build, ev>>

\* ---------------------------------------------------------------- helpers
Max(a, b) == IF a >= b THEN a ELSE b
Min(a, b) == IF a <= b THEN a ELSE b

\* Go's int(f) of a float: truncation toward zero (a / b with b > 0).
TruncDiv(a, b) == IF a >= 0 THEN a \div b ELSE -((-a) \div b)

\* int(math.Ceil(float64(w) / float64(d))) for d > 0.
CeilDiv(w, d) == IF w >= 0 THEN (w + d - 1) \div d ELSE -((-w) \div d)

Unit == 2 * Res

\* The iterators: SSI1, SSI2 and their projections Sparse1, Sparse2 (sparse.go,
\* bitmap grid); the list-based samplers (SSI1List, SSI2List, SSI3List: SSI1 and
\* SSI2 of the list version of sparse.go, Sparse1, Sparse2, Sparse3 of poisson.go)
\* and their projections SparseFill1, SparseFill2, SparseFill3 (poisson.go).
Dim(kind) ==
    IF kind \in {"SSI1", "Sparse1", "SSI1List", "SparseFill1"} THEN 1
    ELSE IF kind \in {"SSI2", "Sparse2", "SSI2List", "SparseFill2"} THEN 2
    ELSE 3
IsWrapper(kind) ==
    kind \in {"Sparse1", "Sparse2", "SparseFill1", "SparseFill2", "SparseFill3"}
UsesGrid(kind) == kind \in {"SSI1", "SSI2", "Sparse1", "Sparse2"}
Abs(x) == IF x < 0 THEN -x ELSE x

\* ------------------------------------------------------ acceleration grid
NoGrid == [w |-> 0, h |-> 0, offX |-> 0, offY |-> 0, bits |-> {}]

\* coordToIndex packs 2D grid coords into a row-major 1D index.
coordToIndex(gx, gy, w) == gy * w + gx

\* int(x/ssiCellSize): the sub-cell number of a coordinate, before the offset.
SubCell(x) == TruncDiv(x, Res)

\* A grid without the padding of 10 sub-cells.
newGrid1Unpadded(r1) ==
    LET gridSize == r1 * 4 + 2
    IN  [w |-> gridSize, h |-> 1, offX |-> gridSize \div 2, offY |-> 0, bits |-> {}]

newGrid1(r1) ==
    LET gridSize == r1 * 4 + 10
    IN  [w |-> gridSize, h |-> 1, offX |-> gridSize \div 2, offY |-> 0, bits |-> {}]

\* A neighbourhood of +-1 sub-cells instead of +-ssiNeighborRadius.
NeighborRangeNarrow == (-1)..1

\* for dx := -ssiNeighborRadius; dx <= ssiNeighborRadius; dx++
NeighborRange == (-ssiNeighborRadius)..ssiNeighborRadius

grid1IsValid(g, x) ==
    LET gx == SubCell(x) + g.offX
    IN  IF gx < 0 \/ gx >= g.w
        THEN FALSE
        ELSE \A dx \in NeighborRange :
                LET idx == gx + dx
                IN  ~(idx >= 0 /\ idx < g.w /\ idx \in g.bits)

\* Set that keeps the last point's bit only.
grid1SetLast(g, x) ==
    LET gx == SubCell(x) + g.offX
    IN  IF gx >= 0 /\ gx < g.w
        THEN [g EXCEPT !.bits = {gx}]
        ELSE g

grid1Set(g, x) ==
    LET gx == SubCell(x) + g.offX
    IN  IF gx >= 0 /\ gx < g.w
        THEN [g EXCEPT !.bits = @ \cup {gx}]
        ELSE g

newGrid2(r1, r2) ==
    LET w == r1 * 4 + 10
        h == r2 * 4 + 10
    IN  [w |-> w, h |-> h, offX |-> w \div 2, offY |-> h \div 2, bits |-> {}]

grid2IsValid(g, x, y) ==
    LET gx == SubCell(x) + g.offX
        gy == SubCell(y) + g.offY
    IN  IF gx < 0 \/ gx >= g.w \/ gy < 0 \/ gy >= g.h
        THEN FALSE
        ELSE \A dy \in NeighborRange : \A dx \in NeighborRange :
                LET nx == gx + dx
                    ny == gy + dy
                IN  ~(nx >= 0 /\ nx < g.w /\ ny >= 0 /\ ny < g.h
                      /\ coordToIndex(nx, ny, g.w) \in g.bits)

grid2Set(g, x, y) ==
    LET gx == SubCell(x) + g.offX
        gy == SubCell(y) + g.offY
    IN  IF gx >= 0 /\ gx < g.w /\ gy >= 0 /\ gy < g.h
        THEN [g EXCEPT !.bits = @ \cup {coordToIndex(gx, gy, g.w)}]
        ELSE g

\* ------------------------------------------------------------ sweep order
\* The sweep with tryCell(-r) before tryCell(r).
RECURSIVE Sweep1FromSwapped(_, _)
Sweep1FromSwapped(r, r1) ==
    IF r > r1 THEN << >>
    ELSE << <<-r>>, <<r>> >> \o Sweep1FromSwapped(r + 1, r1)

\* SSI1: tryCell(0), then for r = 1..r1: tryCell(r), tryCell(-r).
RECURSIVE Sweep1From(_, _)
Sweep1From(r, r1) ==
    IF r > r1 THEN << >>
    ELSE << <<r>>, <<-r>> >> \o Sweep1From(r + 1, r1)

Sweep1(r1) == << <<0>> >> \o Sweep1From(1, r1)

\* for ix := lo; ix <= hi; ix++ { tryCell(ix, y) }
EdgeX(lo, hi, y) == [n \in 1..Max(0, hi - lo + 1) |-> <<lo + n - 1, y>>]
\* for iy := lo; iy <= hi; iy++ { tryCell(x, iy) }
EdgeY(lo, hi, x) == [n \in 1..Max(0, hi - lo + 1) |-> <<x, lo + n - 1>>]

\* A ring whose left and right edges start and end at the corners again.
Ring2Corners(r, r1, r2) ==
    LET ixMin == Max(-r, -r1)
        ixMax == Min(r, r1)
        iyMin == Max(-r, -r2)
        iyMax == Min(r, r2)
    IN  (IF -r >= -r2 /\ -r <= r2 THEN EdgeX(ixMin, ixMax, -r) ELSE << >>)
        \o (IF r >= -r2 /\ r <= r2 THEN EdgeX(ixMin, ixMax, r) ELSE << >>)
        \o (IF -r >= -r1 /\ -r <= r1 THEN EdgeY(iyMin, iyMax, -r) ELSE << >>)
        \o (IF r >= -r1 /\ r <= r1 THEN EdgeY(iyMin, iyMax, r) ELSE << >>)

\* One ring of SSI2: top edge, bottom edge, left edge, right edge.
Ring2(r, r1, r2) ==
    LET ixMin == Max(-r, -r1)
        ixMax == Min(r, r1)
        iyMin == Max(-r + 1, -r2)
        iyMax == Min(r - 1, r2)
    IN  (IF -r >= -r2 /\ -r <= r2 THEN EdgeX(ixMin, ixMax, -r) ELSE << >>)
        \o (IF r >= -r2 /\ r <= r2 THEN EdgeX(ixMin, ixMax, r) ELSE << >>)
        \o (IF -r >= -r1 /\ -r <= r1 THEN EdgeY(iyMin, iyMax, -r) ELSE << >>)
        \o (IF r >= -r1 /\ r <= r1 THEN EdgeY(iyMin, iyMax, r) ELSE << >>)

RECURSIVE Sweep2From(_, _, _)
Sweep2From(r, r1, r2) ==
    IF r > Max(r1, r2) THEN << >>
    ELSE Ring2(r, r1, r2) \o Sweep2From(r + 1, r1, r2)

Sweep2(r1, r2) == << <<0, 0>> >> \o Sweep2From(1, r1, r2)

\* The list-based 2D sweep: per column ix the top cell then the bottom cell,
\* then per row iy the left cell then the right cell.
RECURSIVE ListColumns2(_, _, _, _)
ListColumns2(ix, r, r1, r2) ==
    IF ix > r THEN << >>
    ELSE (IF ix >= -r1 /\ ix <= r1
          THEN (IF -r >= -r2 /\ -r <= r2 THEN << <<ix, -r>> >> ELSE << >>)
               \o (IF r >= -r2 /\ r <= r2 THEN << <<ix, r>> >> ELSE << >>)
          ELSE << >>)
         \o ListColumns2(ix + 1, r, r1, r2)

RECURSIVE ListRows2(_, _, _, _)
ListRows2(iy, r, r1, r2) ==
    IF iy > r - 1 THEN << >>
    ELSE (IF iy >= -r2 /\ iy <= r2
          THEN (IF -r >= -r1 /\ -r <= r1 THEN << <<-r, iy>> >> ELSE << >>)
               \o (IF r >= -r1 /\ r <= r1 THEN << <<r, iy>> >> ELSE << >>)
          ELSE << >>)
         \o ListRows2(iy + 1, r, r1, r2)

RECURSIVE ListSweep2From(_, _, _)
ListSweep2From(r, r1, r2) ==
    IF r > Max(r1, r2) THEN << >>
    ELSE ListColumns2(-r, r, r1, r2) \o ListRows2(-r + 1, r, r1, r2)
         \o ListSweep2From(r + 1, r1, r2)

ListSweep2(r1, r2) == << <<0, 0>> >> \o ListSweep2From(1, r1, r2)

\* The 3D sweep of poisson.go: the two z faces, then the two x faces, then the
\* two y faces of each shell, the inner loops nested as in the code.
InR(v, rv) == v >= -rv /\ v <= rv

RECURSIVE FaceZ(_, _, _)
FaceZ(n, r, rr) ==
    \* n enumerates (ix, iy) in -r..r x -r..r, row-major with ix outer
    LET side == 2 * r + 1
        ix == -r + (n \div side)
        iy == -r + (n % side)
    IN  IF n >= side * side THEN << >>
        ELSE (IF InR(ix, rr[1]) /\ InR(iy, rr[2])
              THEN (IF InR(-r, rr[3]) THEN << <<ix, iy, -r>> >> ELSE << >>)
                   \o (IF InR(r, rr[3]) THEN << <<ix, iy, r>> >> ELSE << >>)
              ELSE << >>)
             \o FaceZ(n + 1, r, rr)

RECURSIVE FaceX(_, _, _)
FaceX(n, r, rr) ==
    \* n enumerates (iy, iz) in (-r+1..r-1)^2 with iy outer
    LET side == 2 * r - 1
        iy == -r + 1 + (n \div side)
        iz == -r + 1 + (n % side)
    IN  IF n >= side * side THEN << >>
        ELSE (IF InR(iy, rr[2]) /\ InR(iz, rr[3])
              THEN (IF InR(-r, rr[1]) THEN << <<-r, iy, iz>> >> ELSE << >>)
                   \o (IF InR(r, rr[1]) THEN << <<r, iy, iz>> >> ELSE << >>)
              ELSE << >>)
             \o FaceX(n + 1, r, rr)

RECURSIVE FaceY(_, _, _)
FaceY(n, r, rr) ==
    \* n enumerates (ix, iz) in (-r+1..r-1)^2 with ix outer
    LET side == 2 * r - 1
        ix == -r + 1 + (n \div side)
        iz == -r + 1 + (n % side)
    IN  IF n >= side * side THEN << >>
        ELSE (IF InR(ix, rr[1]) /\ InR(iz, rr[3])
              THEN (IF InR(-r, rr[2]) THEN << <<ix, -r, iz>> >> ELSE << >>)
                   \o (IF InR(r, rr[2]) THEN << <<ix, r, iz>> >> ELSE << >>)
              ELSE << >>)
             \o FaceY(n + 1, r, rr)

RECURSIVE ListSweep3From(_, _)
ListSweep3From(r, rr) ==
    IF r > Max(rr[1], Max(rr[2], rr[3])) THEN << >>
    ELSE FaceZ(0, r, rr) \o FaceX(0, r, rr) \o FaceY(0, r, rr)
         \o ListSweep3From(r + 1, rr)

ListSweep3(rr) == << <<0, 0, 0>> >> \o ListSweep3From(1, rr)

\* The cells an iteration calls tryCell on, in call order.
Sweep(kind, r) ==
    IF Dim(kind) = 1 THEN Sweep1(r[1])
    ELSE IF Dim(kind) = 3 THEN ListSweep3(r)
    ELSE IF UsesGrid(kind) THEN Sweep2(r[1], r[2])
    ELSE ListSweep2(r[1], r[2])

\* ------------------------------------------------------------------ jitter
\* Float32(seed, h) - 0.5 per axis, in ticks: the values the hash can take.
Jitter1 == {<<j>> : j \in (-Res)..Res}
Jitter1Coarse == {<<-Res>>, <<-1>>, <<Res>>}
Jitter2 == {<<-Res, -Res>>, <<-Res, Res>>, <<Res, -Res>>, <<Res, Res>>, <<0, 0>>, <<1, -1>>}
Jitter2Wide == {<<0, 0>>, <<Res, -Res>>}
\* Runs whose hash gives every cell the same jitter (one set per run).
Jitter2Fixed == {{<<0, 0>>}, {<<Res, -Res>>}, {<<-1, Res>>}, {<<-Res, 1 - Res>>}}
Jitter3Fixed == {{<<0, 0, 0>>}, {<<Res, -Res, 1>>}, {<<-1, -1, -Res>>}, {<<-Res, Res - 1, -1>>}}

\* x := float32(ix) + (Float32(seed, h) - 0.5), per axis.
Candidate(cell, j) == [a \in DOMAIN cell |-> cell[a] * Unit + j[a]]

\* One attempt more than the loop bound of tryCell.
MaxAttemptsMore(kind) == IF Dim(kind) = 1 THEN Attempts1 + 1 ELSE Attempts2 + 1

\* for t := 0; t < 3; t++ (SSI1), t < 2 (SSI2)
MaxAttempts(kind) == IF Dim(kind) = 1 THEN Attempts1 ELSE Attempts2

\* The list-based acceptance tests: abs(x-e) < minDist, dx*dx+dy*dy < min2.
list1IsValid(points, x) ==
    \A n \in DOMAIN points : ~(Abs(x - points[n][1]) < Unit)

listIsValid(points, p) ==
    \A n \in DOMAIN points :
        LET q == points[n]
            d2 == IF Len(p) = 2
                  THEN (p[1] - q[1]) * (p[1] - q[1]) + (p[2] - q[2]) * (p[2] - q[2])
                  ELSE (p[1] - q[1]) * (p[1] - q[1]) + (p[2] - q[2]) * (p[2] - q[2])
                       + (p[3] - q[3]) * (p[3] - q[3])
        IN  ~(d2 < Unit * Unit)

IsValid(kind, g, points, p) ==
    IF UsesGrid(kind)
    THEN IF Dim(kind) = 1 THEN grid1IsValid(g, p[1]) ELSE grid2IsValid(g, p[1], p[2])
    ELSE IF Dim(kind) = 1 THEN list1IsValid(points, p[1]) ELSE listIsValid(points, p)

GridSet(kind, g, p) ==
    IF ~UsesGrid(kind) THEN g
    ELSE IF Dim(kind) = 1 THEN grid1Set(g, p[1]) ELSE grid2Set(g, p[1], p[2])

NewGrid(kind, r) ==
    IF ~UsesGrid(kind) THEN NoGrid
    ELSE IF Dim(kind) = 1 THEN newGrid1(r[1]) ELSE newGrid2(r[1], r[2])

\* ------------------------------------------------------ sparse projection
\* The size of the target per axis: <<w>>, <<w, h>>, <<w, h, d>>.
Size(c) ==
    IF Dim(c.kind) = 1 THEN <<c.w>>
    ELSE IF Dim(c.kind) = 2 THEN <<c.w, c.h>>
    ELSE <<c.w, c.h, c.d>>

\* The guard without the test of the sizes.
SparseRejectsGapOnly(c) == c.gap <= 0

\* if w <= 0 || gap <= 0 { return }   (and h <= 0, d <= 0)
SparseRejects(c) == c.gap <= 0 \/ \E a \in DOMAIN Size(c) : Size(c)[a] <= 0

\* r1 := int(math.Ceil(float64(w) / float64(2*gap)));  SparseFill3: (w+gap-1)/gap
AxisRadius(kind, w, gap) ==
    IF kind = "SparseFill3" THEN (w + gap - 1) \div gap ELSE CeilDiv(w, 2 * gap)

SparseRadius(c) == [a \in DOMAIN Size(c) |-> AxisRadius(c.kind, Size(c)[a], c.gap)]

\* ix := int(x*gapF + c) with c = float32(w)/2: (x*gap + w/2) truncated.
Pixel(x, gap, w) == TruncDiv(x * gap * 2 + w * Unit, 2 * Unit)

\* SparseFill3: ix := int(pt[0] * float32(gap)), no centring.
Pixel3(x, gap) == TruncDiv(x * gap, Unit)

Project(c, p) ==
    IF c.kind = "SparseFill3" THEN [a \in DOMAIN p |-> Pixel3(p[a], c.gap)]
    ELSE [a \in DOMAIN p |-> Pixel(p[a], c.gap, Size(c)[a])]

\* The bounds test with ix > w for ix >= w.
OutOfBoundsOffByOne(q, w) == q < 0 \/ q > w

\* if ix < 0 || ix >= w { continue }
OutOfBounds(q, w) == q < 0 \/ q >= w

\* SparseFill3: validX := (ix >= 0 && ix < w) || (ix < 0 && -ix < w)
ValidAbs(q, w) == (q >= 0 /\ q < w) \/ (q < 0 /\ -q < w)

\* The projected point is not handed to the consumer (continue).
Skips(c, q, seen) ==
    IF c.kind = "SparseFill3" THEN \E a \in DOMAIN q : ~ValidAbs(q[a], Size(c)[a])
    ELSE \/ \E a \in DOMAIN q : OutOfBounds(q[a], Size(c)[a])
         \/ c.kind \in {"SparseFill1", "SparseFill2"} /\ q \in seen

\* What the consumer receives for SSI point p projected to q.
Emitted(c, p, q) ==
    IF ~IsWrapper(c.kind) THEN p
    ELSE IF c.kind = "SparseFill3" THEN [a \in DOMAIN q |-> Abs(q[a])]
    ELSE q

Range(s) == {s[n] : n \in DOMAIN s}

\* ----------------------------------------------------------- configurations
Cfg(kind, seed, r, size, gap, jit) ==
    [kind |-> kind, seed |-> seed, r |-> r,
     w |-> size[1], h |-> size[2], d |-> size[3], gap |-> gap, jit |-> jit]

Radii2 == (0..MaxR2) \X (0..MaxR2)

SSIConfigs ==
    {Cfg("SSI1", 0, <<r>>, <<0, 0, 0>>, 0, Jitter1) : r \in -1..MaxR}
    \cup {Cfg("SSI1List", 0, <<r>>, <<0, 0, 0>>, 0, Jitter1Coarse) : r \in 0..MaxR}
    \cup {Cfg("SSI2", 0, ab, <<0, 0, 0>>, 0, IF ab[1] + ab[2] <= 2 THEN Jitter2 ELSE Jitter2Wide) :
            ab \in {x \in Radii2 : x[1] <= 1 \/ x[2] <= 1}}
    \cup {Cfg("SSI2", 0, ab, <<0, 0, 0>>, 0, js) :
            ab \in {x \in Radii2 : x[1] > 1 /\ x[2] > 1}, js \in Jitter2Fixed}
    \cup {Cfg("SSI2List", 0, ab, <<0, 0, 0>>, 0, js) :
            ab \in {x \in Radii2 : x[1] >= 1 /\ x[2] >= 1}, js \in Jitter2Fixed}

\* The widths whose radius CeilDiv(w, 2*gap) stays within MaxR.
Widths(g) == {w \in -1..MaxW : w <= 0 \/ g = 0 \/ (w >= 2 /\ CeilDiv(w, 2 * g) <= MaxR)}
WidthGaps == {x \in (-1..MaxW) \X (-1..MaxGap) : x[1] \in Widths(x[2])}

SparseConfigs ==
    {Cfg("Sparse1", 0, << >>, <<wg[1], 0, 0>>, wg[2], Jitter1) : wg \in WidthGaps}
    \cup {Cfg("SparseFill1", 0, << >>, <<wg[1], 0, 0>>, wg[2], Jitter1Coarse) : wg \in WidthGaps}
    \cup {Cfg("Sparse2", 0, << >>, <<w, h, 0>>, g, Jitter2) :
            w \in 0..2, h \in 0..2, g \in 0..1}
    \cup {Cfg("SparseFill2", 0, << >>, <<w, h, 0>>, g, js) :
            w \in 0..2, h \in 1..2, g \in 0..1, js \in Jitter2Fixed}
    \cup {Cfg("SparseFill3", 0, << >>, <<w, 2, 1>>, g, js) :
            w \in 0..2, g \in 0..1, js \in Jitter3Fixed}

Configs == SSIConfigs \cup SparseConfigs

Iters == DOMAIN cfg

\* No call of a DeterministicRandom function is under way.
NoReq == [fn |-> "", k |-> 0, h |-> << >>, n |-> 0, lo |-> 0, hi |-> 0]
NoResp ==
    [status |-> "idle", err |-> "", num |-> << >>, exp |-> 0, off |-> 0, int |-> 0,
     cls |-> ""]
NoHash == [pc |-> "idle", call |-> << >>, i |-> 0, hash |-> << >>]
RandomIdle == req = NoReq /\ resp = NoResp /\ hashing = NoHash

\* No noise generator is in use.
SimplexIdle == pkg = << >> /\ simplex = << >> /\ build = << >> /\ ev = << >>

\* -------------------------------------------------------------------- Init
InitWith(cs) ==
    /\ cfg = cs
    /\ pc = [i \in DOMAIN cs |-> IF IsWrapper(cs[i].kind) THEN "call" ELSE "ssi"]
    /\ rad = [i \in DOMAIN cs |-> cs[i].r]
    /\ order = [i \in DOMAIN cs |-> << >>]
    /\ pos = [i \in DOMAIN cs |-> 0]
    /\ att = [i \in DOMAIN cs |-> 0]
    /\ grid = [i \in DOMAIN cs |-> NoGrid]
    /\ pts = [i \in DOMAIN cs |-> << >>]
    /\ from = [i \in DOMAIN cs |-> << >>]
    /\ out = [i \in DOMAIN cs |-> << >>]
    /\ tried = [i \in DOMAIN cs |-> << >>]
    /\ stopped = [i \in DOMAIN cs |-> FALSE]
    /\ hv = << >>
    /\ RandomIdle
    /\ SimplexIdle

Init == \E c \in Configs : InitWith([i \in {1} |-> c])

\* ----------------------------------------------------------------- actions
\* A projection is entered: the guard, then the radii for the sampler call.
Call(i) ==
    /\ pc[i] = "call"
    /\ IF SparseRejects(cfg[i])
       THEN /\ pc' = [pc EXCEPT ![i] = "done"]
            /\ rad' = rad
       ELSE /\ pc' = [pc EXCEPT ![i] = "ssi"]
            /\ rad' = [rad EXCEPT ![i] = SparseRadius(cfg[i])]
    /\ UNCHANGED <<cfg, order, pos, att, grid, pts, from, out, tried, stopped, hv>>

\* A guard that lets the radius 0 through.
SSIRejectsNegative(r) == \E a \in DOMAIN r : r[a] < 0

\* if r1 <= 0 { return }   (r1 <= 0 || r2 <= 0 in 2D)
SSIRejects(r) == \E a \in DOMAIN r : r[a] <= 0

\* The sampler's iterator function is entered: the guard, then the fresh grid
\* (or the empty point list) and the first tryCell call.
Begin(i) ==
    /\ pc[i] = "ssi"
    /\ IF SSIRejects(rad[i])
       THEN /\ pc' = [pc EXCEPT ![i] = "done"]
            /\ UNCHANGED <<grid, pos, order>>
       ELSE /\ pc' = [pc EXCEPT ![i] = "sweep"]
            /\ grid' = [grid EXCEPT ![i] = NewGrid(cfg[i].kind, rad[i])]
            /\ order' = [order EXCEPT ![i] = Sweep(cfg[i].kind, rad[i])]
            /\ pos' = [pos EXCEPT ![i] = 1]
    /\ UNCHANGED <<cfg, rad, att, pts, from, out, tried, stopped, hv>>

\* The sweep moves to the next tryCell call, or the iterator returns.
NextPc(i) == IF pos[i] < Len(order[i]) THEN "sweep" ELSE "done"
NextPos(i) == IF pos[i] < Len(order[i]) THEN pos[i] + 1 ELSE pos[i]

\* tryCell returning yield(x) for !yield(x).
TryCellStopsInverted(cont) == cont

\* tryCell returns !yield(x): true (stop the sweep) when the consumer returns false.
TryCellStops(cont) == ~cont

\* One grid shared by every running iteration.
GridAfterSetShared(i, p) ==
    [k \in DOMAIN grid |->
        IF grid[k] = NoGrid \/ Dim(cfg[k].kind) # Dim(cfg[i].kind) THEN grid[k]
        ELSE GridSet(cfg[k].kind, grid[k], p)]

\* g.Set(x): g is the grid the iteration created for itself (g := newGrid1(r1)
\* inside the iterator closure).
GridAfterSet(i, p) == [grid EXCEPT ![i] = GridSet(cfg[i].kind, @, p)]

\* One jitter attempt of tryCell on the current cell, with jitter j.
Attempt(i, j) ==
    LET c == cfg[i]
        cell == order[i][pos[i]]
        p == Candidate(cell, j)
        q == Project(c, p)
    IN  /\ tried' = [tried EXCEPT ![i] = IF att[i] = 0 THEN Append(@, cell) ELSE @]
        /\ IF IsValid(c.kind, grid[i], pts[i], p)
           THEN /\ grid' = GridAfterSet(i, p)
                /\ pts' = [pts EXCEPT ![i] = Append(@, p)]
                /\ from' = [from EXCEPT ![i] = Append(@, cell)]
                /\ IF IsWrapper(c.kind) /\ Skips(c, q, Range(out[i]))
                   THEN \* the range body continues: yield returns true to the sampler
                        /\ out' = out
                        /\ pc' = [pc EXCEPT ![i] = NextPc(i)]
                        /\ pos' = [pos EXCEPT ![i] = NextPos(i)]
                        /\ att' = [att EXCEPT ![i] = 0]
                   ELSE \* the point is handed to the consumer
                        /\ out' = [out EXCEPT ![i] = Append(@, Emitted(c, p, q))]
                        /\ pc' = [pc EXCEPT ![i] = "yield"]
                        /\ UNCHANGED <<pos, att>>
           ELSE /\ UNCHANGED <<grid, pts, from, out>>
                /\ IF att[i] + 1 < MaxAttempts(c.kind)
                   THEN /\ att' = [att EXCEPT ![i] = @ + 1]
                        /\ UNCHANGED <<pc, pos>>
                   ELSE /\ att' = [att EXCEPT ![i] = 0]
                        /\ pc' = [pc EXCEPT ![i] = NextPc(i)]
                        /\ pos' = [pos EXCEPT ![i] = NextPos(i)]
        /\ UNCHANGED <<cfg, rad, order, stopped>>

\* A jitter attempt whose hash value is any value (one iteration reads each
\* hash value once).
Try(i) ==
    /\ pc[i] = "sweep"
    /\ \E j \in cfg[i].jit : Attempt(i, j)
    /\ hv' = hv

\* The consumer's callback returns: continue (true) or stop (false).
Consume(i) ==
    /\ pc[i] = "yield"
    /\ \E cont \in BOOLEAN :
        /\ stopped' = [stopped EXCEPT ![i] = ~cont]
        /\ IF TryCellStops(cont)
           THEN /\ pc' = [pc EXCEPT ![i] = "done"]
                /\ UNCHANGED <<pos, att>>
           ELSE /\ pc' = [pc EXCEPT ![i] = NextPc(i)]
                /\ pos' = [pos EXCEPT ![i] = NextPos(i)]
                /\ att' = [att EXCEPT ![i] = 0]
    /\ UNCHANGED <<cfg, rad, order, grid, pts, from, out, tried, hv>>

Next ==
    /\ \E i \in Iters : Call(i) \/ Begin(i) \/ Try(i) \/ Consume(i)
    /\ UNCHANGED <<randVars, simplexVars>>

\* --------------------------------------------------- two iterations at once
\* Two iterations read the same hash function: hv holds the hash values read
\* so far, as jitters, by seed, cell and attempt.

\* A hash that differs from one iteration to the next.
HashKeyPerIteration(i, cell, t) == <<i, cell, t>>

\* h := xxhash64(cell, seed ^ t); Float32(seed, h), Float32(seed^1, h), ...
HashKey(i, cell, t) == <<cfg[i].seed, cell, t>>

PairSSI1 == Cfg("SSI1", 1, <<1>>, <<0, 0, 0>>, 0, Jitter1Coarse)
PairSSI1Other == Cfg("SSI1", 2, <<1>>, <<0, 0, 0>>, 0, {<<-1>>})
PairSparse1 == Cfg("Sparse1", 1, << >>, <<2, 0, 0>>, 1, Jitter1Coarse)
PairSSI2 == Cfg("SSI2", 1, <<2, 1>>, <<0, 0, 0>>, 0, {<<0, 0>>})
PairSparse2 == Cfg("Sparse2", 1, << >>, <<2, 2, 0>>, 1, {<<0, 0>>})
PairSparseFill2 == Cfg("SparseFill2", 1, << >>, <<2, 2, 0>>, 1, {<<Res, -Res>>})

\* The pairs of calls that are run interleaved.
PairConfigs ==
    {<<PairSSI1, PairSSI1>>, <<PairSSI1, PairSSI1Other>>,
     <<PairSSI1, PairSparse1>>, <<PairSparse1, PairSparse1>>,
     <<PairSSI2, PairSSI2>>, <<PairSSI2, PairSparse2>>,
     <<PairSparseFill2, PairSparseFill2>>, <<PairSSI1, PairSSI2>>}

InitPair == \E cs \in PairConfigs : InitWith(cs)

\* A jitter attempt: the hash value is the one read before for the same seed,
\* cell and attempt, if any.
TryShared(i) ==
    /\ pc[i] = "sweep"
    /\ LET key == HashKey(i, order[i][pos[i]], att[i])
       IN  IF key \in DOMAIN hv
           THEN Attempt(i, hv[key]) /\ hv' = hv
           ELSE \E j \in cfg[i].jit : Attempt(i, j) /\ hv' = hv @@ (key :> j)

NextPair ==
    /\ \E i \in Iters : Call(i) \/ Begin(i) \/ TryShared(i) \/ Consume(i)
    /\ UNCHANGED <<randVars, simplexVars>>

SpecPair == InitPair /\ [][NextPair]_vars

Spec == Init /\ [][Next]_vars

\* The runs of the termination property: SSI1 and SSI2 in both versions, and
\* Sparse1 ranging over SSI1, the 1D ones with the coarse jitter values.  An
\* iteration that can take a step takes one: the
\* producer and the consumer run in one goroutine.
FairConfigs ==
    {IF c.jit = Jitter1 THEN [c EXCEPT !.jit = Jitter1Coarse] ELSE c :
        c \in {x \in Configs : x.kind \in {"SSI1", "SSI2", "SSI1List", "SSI2List", "Sparse1"}}}

InitFair == \E c \in FairConfigs : InitWith(<<c>>)

FairSpec == InitFair /\ [][Next]_vars /\ WF_vars(Next)

\* ---------------------------------------------------- DeterministicRandom
\* A 64-bit hash is four 16-bit limbs, least significant first; the upper 32
\* bits are two limbs.  hashCoords mixes the coordinates with xxhash64, a
\* bijection of its first argument: every 64-bit value is the hash of some
\* coordinate, so the hash of a call is any value.
LimbBase == 2^16
Float32Mantissa == 24
Float64Mantissa == 53

\* The number of bits of a limb, and of a number.
BitLen16(x) == IF x = 0 THEN 0 ELSE CHOOSE b \in 1..16 : 2^(b - 1) <= x /\ x < 2^b
TopLimb(n) ==
    IF \A i \in DOMAIN n : n[i] = 0 THEN 0
    ELSE CHOOSE i \in DOMAIN n : n[i] # 0 /\ \A j \in DOMAIN n : j > i => n[j] = 0
BitLen(n) == IF TopLimb(n) = 0 THEN 0 ELSE 16 * (TopLimb(n) - 1) + BitLen16(n[TopLimb(n)])
IsZero(n) == \A i \in DOMAIN n : n[i] = 0

\* n + v * LimbBase^(i-1), the carry moving up.
RECURSIVE AddAt(_, _, _)
AddAt(n, i, v) ==
    IF v = 0 THEN n
    ELSE AddAt([n EXCEPT ![i] = (n[i] + v) % LimbBase], i + 1, (n[i] + v) \div LimbBase)

\* float32(n), float64(n) of an unsigned integer: the value of the nearest
\* float with mant bits of mantissa, ties to even, as an integer of one limb
\* more (the conversion of 2^32 - 1 gives 2^32).
IntToFloat(n, mant) ==
    LET s == BitLen(n) - mant
        r == n[1] % 2^s
        half == 2^(s - 1)
        odd == ((n[1] \div 2^s) % 2) = 1
        down == [Append(n, 0) EXCEPT ![1] = n[1] - r]
    IN  IF s <= 0 THEN Append(n, 0)
        ELSE IF r > half \/ (r = half /\ odd) THEN AddAt(down, 1, 2^s)
        ELSE down

\* hash >> 32
Shr32(h) == <<h[3], h[4]>>

\* hash % n for 0 < n < 2^15.
RECURSIVE ModFrom(_, _, _, _)
ModFrom(h, i, acc, n) ==
    IF i = 0 THEN acc ELSE ModFrom(h, i - 1, (acc * LimbBase + h[i]) % n, n)
LimbsMod(h, n) == ModFrom(h, Len(h), 0, n)

\* What a call gives: a float num / 2^exp - off, an integer, or a panic.
Ok(num, exp, off) ==
    [status |-> "ok", err |-> "", num |-> num, exp |-> exp, off |-> off, int |-> 0,
     cls |-> "finite"]
IntOk(v) ==
    [status |-> "ok", err |-> "", num |-> << >>, exp |-> 0, off |-> 0, int |-> v,
     cls |-> ""]
Panic(e) ==
    [status |-> "panic", err |-> e, num |-> << >>, exp |-> 0, off |-> 0, int |-> 0,
     cls |-> ""]
Pending == [NoResp EXCEPT !.status = "pending"]

\* hashCoords that accepts an empty coordinate list.
hashCoordsAcceptsEmpty(k) == k < 0

\* if len(coords) == 0 { panic("noise: requires at least 1 coordinate") }
hashCoordsPanics(k) == k = 0

\* float32(hash>>32) / float32(1<<32)
Float32(r) ==
    IF hashCoordsPanics(r.k) THEN Panic("EmptyCoordinates")
    ELSE Ok(IntToFloat(Shr32(r.h), Float32Mantissa), 32, 0)

\* float64(hash) / float64(1<<64)
Float64(r) ==
    IF hashCoordsPanics(r.k) THEN Panic("EmptyCoordinates")
    ELSE Ok(IntToFloat(r.h, Float64Mantissa), 64, 0)

\* Float32(seed, coords...)*2 - 1
White(r) ==
    IF Float32(r).status = "panic" THEN Float32(r)
    ELSE Ok(Float32(r).num, 31, 1)

\* White with the switch on len(coords): float32(hash>>32)/float32(1<<31) - 1.0
WhiteSwitch(r) ==
    IF r.k = 0 THEN Panic("EmptyCoordinates")
    ELSE Ok(IntToFloat(Shr32(r.h), Float32Mantissa), 31, 1)

\* uint32(hash >> 32), hashCoords(seed, coords...)
Uint32(r) == IF hashCoordsPanics(r.k) THEN Panic("EmptyCoordinates") ELSE Ok(Shr32(r.h), 0, 0)
Uint64(r) == IF hashCoordsPanics(r.k) THEN Panic("EmptyCoordinates") ELSE Ok(r.h, 0, 0)

\* hash % uint64(n): a run-time panic when n is 0.
ModResult(h, n) == IF n = 0 THEN Panic("DivideByZero") ELSE IntOk(LimbsMod(h, n))

\* A guard that lets n = 0 through.
IntNRejectsNegative(n) == n < 0

\* if n <= 0 { panic("invalid argument to IntN") }
IntNRejects(n) == n <= 0

\* if n == 0 { panic("invalid argument to UintN") }
UintNRejects(n) == n = 0

IntN(r) ==
    IF IntNRejects(r.n) THEN Panic("InvalidBound")
    ELSE IF hashCoordsPanics(r.k) THEN Panic("EmptyCoordinates")
    ELSE ModResult(r.h, r.n)

UintN(r) ==
    IF UintNRejects(r.n) THEN Panic("InvalidBound")
    ELSE IF hashCoordsPanics(r.k) THEN Panic("EmptyCoordinates")
    ELSE ModResult(r.h, r.n)

\* math.Sqrt(-2*math.Log(u1)) * math.Cos(2*math.Pi*u2): math.Log(0) is -Inf,
\* the square root of +Inf is +Inf, and the cosine of a float is never 0.
BoxMullerClass(u1) == IF IsZero(u1) THEN "inf" ELSE "finite"

\* u1 := float64(hash1) / float64(1<<64); num is u1's numerator.
Norm64(r) ==
    IF hashCoordsPanics(r.k) THEN Panic("EmptyCoordinates")
    ELSE [Ok(IntToFloat(r.h, Float64Mantissa), 64, 0) EXCEPT
            !.cls = BoxMullerClass(IntToFloat(r.h, Float64Mantissa))]

\* float32(Norm64(seed, coords...)): at most about 9.4 in size when finite.
Norm32(r) == Norm64(r)

\* A range test that also refuses lo = hi.
rangeInclusiveStrict(h, lo, hi) ==
    IF lo >= hi THEN Panic("InvalidRange")
    ELSE IntOk(lo + LimbsMod(h, hi - lo + 1))

\* rangeInclusive(h, lo, hi): fails with InvalidRange when lo > hi; otherwise
\* lo + (h mod (hi - lo + 1)).
rangeInclusive(h, lo, hi) ==
    IF lo > hi THEN Panic("InvalidRange")
    ELSE IntOk(lo + LimbsMod(h, hi - lo + 1))

Apply(r) ==
    CASE r.fn = "Float32" -> Float32(r)
      [] r.fn = "Float64" -> Float64(r)
      [] r.fn = "White" -> White(r)
      [] r.fn = "WhiteSwitch" -> WhiteSwitch(r)
      [] r.fn = "Uint32" -> Uint32(r)
      [] r.fn = "Uint64" -> Uint64(r)
      [] r.fn = "IntN" -> IntN(r)
      [] r.fn = "UintN" -> UintN(r)
      [] r.fn = "Norm64" -> Norm64(r)
      [] r.fn = "Norm32" -> Norm32(r)
      [] r.fn \in {"IntIn", "UintIn"} -> rangeInclusive(r.h, r.lo, r.hi)

\* The calls.  Limbs at the edges of the conversions: 2^16 - 2^10 and
\* 2^16 - 2^7 are the least low limbs of a hash (of its upper half) that the
\* conversion to float64 (float32) rounds up to the next power of two.
MaxCoords == 5
MaxN == 4
RangeBits == 3

EdgeLimbs ==
    {0, 1, LimbBase - 2^10 - 1, LimbBase - 2^10, LimbBase - 2^7 - 1, LimbBase - 2^7,
     LimbBase - 1}
HashSamples == EdgeLimbs \X EdgeLimbs \X EdgeLimbs \X EdgeLimbs
HashFew ==
    {<<0, 0, 0, 0>>, <<1, 0, 0, 0>>, <<LimbBase - 1, LimbBase - 1, LimbBase - 1, LimbBase - 1>>,
     <<LimbBase - 2, 1, 0, LimbBase - 2^7>>, <<7, 0, 0, 2^15>>}

FloatFns == {"Float32", "Float64", "White", "WhiteSwitch"}
HashFns == FloatFns \cup {"Uint32", "Uint64", "Norm64", "Norm32"}

Req(fn, k, h, n, lo, hi) == [fn |-> fn, k |-> k, h |-> h, n |-> n, lo |-> lo, hi |-> hi]

SignedRange == (-(2^(RangeBits - 1)))..(2^(RangeBits - 1) - 1)
UnsignedRange == 0..(2^RangeBits - 1)

Requests ==
    {Req(fn, 1, h, 0, 0, 0) : fn \in HashFns, h \in HashSamples}
    \cup {Req(fn, k, h, 0, 0, 0) : fn \in HashFns, k \in 0..MaxCoords, h \in HashFew}
    \cup {Req("IntN", k, h, n, 0, 0) : k \in 0..MaxCoords, h \in HashFew, n \in (-1)..MaxN}
    \cup {Req("UintN", k, h, n, 0, 0) : k \in 0..MaxCoords, h \in HashFew, n \in 0..MaxN}
    \cup {Req("IntIn", 1, h, 0, lo, hi) : h \in HashFew, lo \in SignedRange, hi \in SignedRange}
    \cup {Req("UintIn", 1, h, 0, lo, hi) : h \in HashFew, lo \in UnsignedRange, hi \in UnsignedRange}

\* No sampler iteration exists.
SSIIdle ==
    /\ cfg = << >> /\ pc = << >> /\ rad = << >> /\ order = << >> /\ pos = << >>
    /\ att = << >> /\ grid = << >> /\ pts = << >> /\ from = << >> /\ out = << >>
    /\ tried = << >> /\ stopped = << >> /\ hv = << >>

InitRandom ==
    /\ SSIIdle /\ SimplexIdle
    /\ req \in Requests /\ resp = Pending /\ hashing = NoHash

\* The call returns or panics.
Return ==
    /\ resp.status = "pending"
    /\ resp' = Apply(req)
    /\ UNCHANGED <<req, hashing, ssiVars, simplexVars>>

NextRandom == Return

SpecRandom == InitRandom /\ [][NextRandom]_vars

\* The float a call returned is less than 1: num / 2^exp - off < 1.
LessThanOne(f) == \A i \in DOMAIN f.num : (i - 1) * 16 >= f.exp + f.off => f.num[i] = 0

\* hash mod n, limb by limb with the powers of 2^16 mod n.
ModByPowers(h, n) ==
    (h[1] + h[2] * (LimbBase % n) + h[3] * ((LimbBase % n) * (LimbBase % n) % n)
        + h[4] * ((((LimbBase % n) * (LimbBase % n)) % n) * (LimbBase % n) % n)) % n

\* ------------------------------------------------------------ hashing
\* A uint64 is the sequence of its 8 bytes, lowest first; a coordinate is its
\* type (kind) and the bytes of its value (bits), 2, 4 or 8 of them.
MaxHashCoords == 3

Bit(x, i) == (x[(i \div 8) + 1] \div 2^(i % 8)) % 2
\* The 8 bytes of the uint64 whose bit i is b(i).
FromBits(b(_)) ==
    LET byte(o) ==
            b(o) + 2 * b(o + 1) + 4 * b(o + 2) + 8 * b(o + 3) + 16 * b(o + 4)
              + 32 * b(o + 5) + 64 * b(o + 6) + 128 * b(o + 7)
    IN  <<byte(0), byte(8), byte(16), byte(24), byte(32), byte(40), byte(48), byte(56)>>
Xor64(a, b) == LET bit(i) == (Bit(a, i) + Bit(b, i)) % 2 IN FromBits(bit)
RotateLeft64(x, r) == LET bit(i) == Bit(x, (i - r) % 64) IN FromBits(bit)
Shr64(x, r) == LET bit(i) == IF i + r < 64 THEN Bit(x, i + r) ELSE 0 IN FromBits(bit)

\* The bytes of the column sums cols, carries propagated, modulo 2^64.
RECURSIVE Carry(_, _, _)
Carry(cols, n, c) ==
    IF n > 8 THEN << >>
    ELSE <<(cols[n] + c) % 256>> \o Carry(cols, n + 1, (cols[n] + c) \div 256)
Add64(a, b) ==
    Carry(<<a[1] + b[1], a[2] + b[2], a[3] + b[3], a[4] + b[4],
            a[5] + b[5], a[6] + b[6], a[7] + b[7], a[8] + b[8]>>, 1, 0)
RECURSIVE ColSum(_, _, _, _)
ColSum(a, b, n, i) == IF i > n THEN 0 ELSE a[i] * b[n + 1 - i] + ColSum(a, b, n, i + 1)
Mul64(a, b) ==
    Carry(<<ColSum(a, b, 1, 1), ColSum(a, b, 2, 1), ColSum(a, b, 3, 1), ColSum(a, b, 4, 1),
            ColSum(a, b, 5, 1), ColSum(a, b, 6, 1), ColSum(a, b, 7, 1), ColSum(a, b, 8, 1)>>, 1, 0)

\* 0x1cad21f72c81017c ^ 0xdb979083e96dd4de, 0x9fb21c651e98df25,
\* 0x9e3779b97f4a7c15
XorKey == <<162, 213, 236, 197, 116, 177, 58, 199>>
Prime == <<37, 223, 152, 30, 101, 28, 178, 159>>
Golden64 == <<21, 124, 74, 127, 185, 121, 55, 158>>
Small64(v) == <<v, 0, 0, 0, 0, 0, 0, 0>>

xxhash64(v, seed) ==
    LET x1 == Add64(Xor64(v, XorKey), seed)
        x2 == Xor64(x1, Xor64(RotateLeft64(x1, 49), RotateLeft64(x1, 24)))
        x3 == Mul64(x2, Prime)
        x4 == Xor64(x3, Add64(Shr64(x3, 35), Small64(4)))
        x5 == Mul64(x4, Prime)
    IN  Xor64(x5, Shr64(x5, 28))

\* uint64(v) of a value of 2, 4 or 8 bytes: the bytes, then zeros.
ZeroExtend(b) == b \o SubSeq(<<0, 0, 0, 0, 0, 0, 0, 0>>, 1, 8 - Len(b))
coordToUint64(c) == ZeroExtend(c.bits)

\* uint64(i)*0x9e3779b97f4a7c15 of the coordinate after index i.
IndexOffsetNext(i) == Mul64(Small64(i + 1), Golden64)
\* uint64(i)*0x9e3779b97f4a7c15
IndexOffset(i) == Mul64(Small64(i), Golden64)

\* One iteration of the loop of hashCoords.
hashCoordsStep(hash, coords, i) ==
    xxhash64(coordToUint64(coords[i + 1]), Add64(hash, IndexOffset(i)))

\* The cases 1 and 2 of the switch of White.
WhiteUnrolled(hash, coords) ==
    IF Len(coords) = 1 THEN xxhash64(coordToUint64(coords[1]), hash)
    ELSE xxhash64(coordToUint64(coords[2]),
                  Add64(xxhash64(coordToUint64(coords[1]), hash), Golden64))

\* The hash as the four 16-bit limbs of the conversions.
Limbs16(h) ==
    <<h[1] + 256 * h[2], h[3] + 256 * h[4], h[5] + 256 * h[6], h[7] + 256 * h[8]>>

\* The calls: hashCoords under Uint64 and Float32, White with its switch,
\* and Uint64 and Float32 of one uint64.
HashSeeds == {<<0, 0, 0, 0>>, <<1, 0, 0, 0>>, <<255, 255, 255, 255>>}
CoordKinds == {"int16", "int32", "uint64"}
KindWidth(kind) == CASE kind = "int16" -> 2 [] kind = "int32" -> 4 [] kind = "uint64" -> 8
CoordsOf(kind) ==
    {[kind |-> kind, bits |-> [n \in 1..KindWidth(kind) |-> v]] : v \in {1, 255}}
CoordLists(kind) ==
    UNION {[1..k -> CoordsOf(kind)] : k \in 0..MaxHashCoords}
HashCall(path, fn, seed, coords) ==
    [path |-> path, fn |-> fn, seed |-> seed, coords |-> coords]
HashCalls ==
    {HashCall("hashCoords", fn, seed, cs) :
        fn \in {"Uint64", "Float32"}, seed \in HashSeeds,
        cs \in UNION {CoordLists(kind) : kind \in CoordKinds}}
    \cup {HashCall("White", "WhiteSwitch", seed, cs) :
        seed \in HashSeeds, cs \in UNION {CoordLists(kind) : kind \in CoordKinds}}
    \cup {HashCall("fast", fn, seed, <<x>>) :
        fn \in {"Uint64", "Float32"}, seed \in HashSeeds, x \in CoordsOf("uint64")}

InitHash ==
    /\ SSIIdle /\ SimplexIdle
    /\ req = NoReq /\ resp = NoResp
    /\ \E c \in HashCalls : hashing = [pc |-> "call", call |-> c, i |-> 0, hash |-> << >>]

\* The function starts: it panics without coordinates, hashes the one
\* coordinate or the two (fast path, White), or enters the loop, with
\* hash := uint64(seed).
HashEnter ==
    /\ hashing.pc = "call"
    /\ LET c == hashing.call
           seed == ZeroExtend(c.seed)
       IN  IF Len(c.coords) = 0
           THEN /\ hashing' = [hashing EXCEPT !.pc = "done"]
                /\ req' = Req(c.fn, 0, << >>, 0, 0, 0)
                /\ resp' = Panic("EmptyCoordinates")
           ELSE /\ hashing' =
                    IF c.path = "fast"
                    THEN [hashing EXCEPT !.pc = "return",
                                         !.hash = xxhash64(coordToUint64(c.coords[1]), seed)]
                    ELSE IF c.path = "White" /\ Len(c.coords) <= 2
                    THEN [hashing EXCEPT !.pc = "return",
                                         !.hash = WhiteUnrolled(seed, c.coords)]
                    ELSE [hashing EXCEPT !.pc = "loop", !.hash = seed]
                /\ UNCHANGED <<req, resp>>
    /\ UNCHANGED <<ssiVars, simplexVars>>

\* for i, coord := range coords
HashLoop ==
    /\ hashing.pc = "loop"
    /\ hashing' =
        [hashing EXCEPT
            !.hash = hashCoordsStep(hashing.hash, hashing.call.coords, hashing.i),
            !.i = hashing.i + 1,
            !.pc = IF hashing.i + 1 = Len(hashing.call.coords) THEN "return" ELSE "loop"]
    /\ UNCHANGED <<req, resp, ssiVars, simplexVars>>

\* The hash is converted and returned.
HashReturn ==
    /\ hashing.pc = "return"
    /\ hashing' = [hashing EXCEPT !.pc = "done"]
    /\ req' = Req(hashing.call.fn, Len(hashing.call.coords), Limbs16(hashing.hash), 0, 0, 0)
    /\ resp' = Apply(req')
    /\ UNCHANGED <<ssiVars, simplexVars>>

NextHash == HashEnter \/ HashLoop \/ HashReturn

SpecHash == InitHash /\ [][NextHash]_vars

\* ------------------------------------------------------------ Simplex, FBM
\* The permutation table of an instance has PermSize entries and their copy
\* (256 and 512 in the source, where i&255 is i modulo 256); the package's
\* table is the table of the source.
PermSize == 3
MaxDims == 4
MaxOct == 2
GradCount == 12

\* var table = [...]uint8{151, 160, ...}
table ==
    <<151, 160, 137, 91, 90, 15, 131, 13, 201, 95, 96, 53, 194, 233, 7, 225,
      140, 36, 103, 30, 69, 142, 8, 99, 37, 240, 21, 10, 23, 190, 6, 148,
      247, 120, 234, 75, 0, 26, 197, 62, 94, 252, 219, 203, 117, 35, 11, 32,
      57, 177, 33, 88, 237, 149, 56, 87, 174, 20, 125, 136, 171, 168, 68, 175,
      74, 165, 71, 134, 139, 48, 27, 166, 77, 146, 158, 231, 83, 111, 229, 122,
      60, 211, 133, 230, 220, 105, 92, 41, 55, 46, 245, 40, 244, 102, 143, 54,
      65, 25, 63, 161, 1, 216, 80, 73, 209, 76, 132, 187, 208, 89, 18, 169,
      200, 196, 135, 130, 116, 188, 159, 86, 164, 100, 109, 198, 173, 186, 3, 64,
      52, 217, 226, 250, 124, 123, 5, 202, 38, 147, 118, 126, 255, 82, 85, 212,
      207, 206, 59, 227, 47, 16, 58, 17, 182, 189, 28, 42, 223, 183, 170, 213,
      119, 248, 152, 2, 44, 154, 163, 70, 221, 153, 101, 155, 167, 43, 172, 9,
      129, 22, 39, 253, 19, 98, 108, 110, 79, 113, 224, 232, 178, 185, 112, 104,
      218, 246, 97, 228, 251, 34, 242, 193, 238, 210, 144, 12, 191, 179, 162, 241,
      81, 51, 145, 235, 249, 14, 239, 107, 49, 192, 214, 31, 181, 199, 106, 157,
      184, 84, 204, 176, 115, 121, 50, 45, 127, 4, 150, 254, 138, 236, 205, 93,
      222, 114, 67, 29, 24, 72, 243, 141, 128, 195, 78, 66, 215, 61, 156, 180>>

\* The gradients 0x0101, 0xff01, ... as pairs of int8.
g2d ==
    <<<<1, 1>>, <<-1, 1>>, <<1, -1>>, <<-1, -1>>, <<1, 0>>, <<-1, 0>>,
      <<1, 0>>, <<-1, 0>>, <<0, 1>>, <<0, -1>>, <<0, 1>>, <<0, -1>>>>
g3d ==
    <<<<1, 1, 0>>, <<-1, 1, 0>>, <<1, -1, 0>>, <<-1, -1, 0>>,
      <<1, 0, 1>>, <<-1, 0, 1>>, <<1, 0, -1>>, <<-1, 0, -1>>,
      <<0, 1, 1>>, <<0, -1, 1>>, <<0, 1, -1>>, <<0, -1, -1>>>>

\* Tables of 2n entries as Go creates them: all zero.
ZeroTables(n) ==
    [perm |-> [i \in 1..2 * n |-> 0],
     grad2 |-> [i \in 1..2 * n |-> <<0, 0>>],
     grad3 |-> [i \in 1..2 * n |-> <<0, 0, 0>>]]

Half(t) == Len(t.perm) \div 2

\* init(): perm[i] = table[i&255], the gradients from g2d[perm[i]%12].
pkgInit ==
    LET p == [i \in 1..2 * Len(table) |-> table[((i - 1) % Len(table)) + 1]]
    IN  [perm |-> p,
         grad2 |-> [i \in 1..2 * Len(table) |-> g2d[(p[i] % GradCount) + 1]],
         grad3 |-> [i \in 1..2 * Len(table) |->
                      <<g2d[(p[i] % GradCount) + 1][1], g2d[(p[i] % GradCount) + 1][2], 0>>]]

\* for i := 0; i < 256; i++ { s.perm[i] = uint8(i) }
Identity(p, n) == [i \in 1..Len(p) |-> IF i <= n THEN i - 1 ELSE p[i]]

\* A step that copies entry j to entry i without the exchange.
SwapCopies(p, i, j) == [p EXCEPT ![i + 1] = p[j + 1]]

\* s.perm[i], s.perm[j] = s.perm[j], s.perm[i]
Swap(p, i, j) == [p EXCEPT ![i + 1] = p[j + 1], ![j + 1] = p[i + 1]]

\* for i := 0; i < 256; i++ { s.perm[i+256] = s.perm[i] }
Duplicate(p, n) == [i \in 1..Len(p) |-> IF i > n THEN p[i - n] ELSE p[i]]

\* s.grad2[i] from g2d[s.perm[i&255]%12], s.grad3[i] = g3d[s.perm[i&255]%12]
Gradients(t) ==
    [t EXCEPT
        !.grad2 = [i \in 1..Len(t.perm) |->
                     g2d[(t.perm[((i - 1) % Half(t)) + 1] % GradCount) + 1]],
        !.grad3 = [i \in 1..Len(t.perm) |->
                     g3d[(t.perm[((i - 1) % Half(t)) + 1] % GradCount) + 1]]]

\* The evaluations.  A coordinate is the lattice cell it lies in; tri says in
\* which simplex of the cell the point lies (x0 > y0, and the like in 3D).
Callers == {1, 2}
Cells == {-1, 0, 1}
\* lacunarity and gain
Shapes == {<<1, 1>>, <<1, -1>>, <<2, 0>>, <<0, 1>>}
Seeds == {0, 1, 256, 257}
PkgFns == {"Noise2", "FBM2"}
FbmFns == {"FBM.Eval", "FBM2"}
EvalFns == {"Simplex.Eval", "FBM.Eval"}

EvReq(fn, k, oct, lac, gain, x, tri, seed) ==
    [fn |-> fn, k |-> k, oct |-> oct, lac |-> lac, gain |-> gain, x |-> x, tri |-> tri,
     seed |-> seed]
NoEvReq == EvReq("", 0, 0, 0, 0, 0, 0, 0)

EvalRequests ==
    {EvReq("Simplex.Eval", k, 1, 1, 1, x, tri, 0) :
        k \in 0..MaxDims, x \in Cells, tri \in 0..1}
    \cup {EvReq("FBM.Eval", k, oct, 1, gain, 1, 0, 0) :
        k \in 0..MaxDims, oct \in (-1)..MaxOct, gain \in {-1, 1}}
    \cup {EvReq("Noise2", 2, 1, 1, 1, x, tri, seed) :
        x \in Cells, tri \in 0..1, seed \in Seeds}
    \cup {EvReq("FBM2", 2, oct, sh[1], sh[2], x, 1, 1) :
        oct \in (-1)..MaxOct, sh \in Shapes, x \in {-1, 1}}

\* What a second caller evaluates meanwhile.
ReaderRequests ==
    {EvReq("Simplex.Eval", 3, 1, 1, 1, 1, 1, 0)}

ReqsOf(c) == IF c = 1 THEN EvalRequests ELSE ReaderRequests

\* What an evaluation gives: the literal 0, a value made of the gradients it
\* read with their amplitudes, or a panic.
NoRes == [status |-> "", err |-> "", zero |-> FALSE, terms |-> << >>]
ResZero == [status |-> "ok", err |-> "", zero |-> TRUE, terms |-> << >>]
ResVal(terms) == [status |-> "ok", err |-> "", zero |-> FALSE, terms |-> terms]
ResPanic(e) == [status |-> "panic", err |-> e, zero |-> FALSE, terms |-> << >>]

\* A loop that runs once when octaves <= 0.
OctavesAtLeastOnce(oct) == IF oct <= 0 THEN 1 ELSE oct

\* if octaves <= 0 { return 0 } ... for o := 0; o < octaves; o++: the number
\* of passes through the loop.
Octaves(oct) == IF oct <= 0 THEN 0 ELSE oct

\* A switch that refuses the empty coordinate list only.
EvalRejectsOnlyEmpty(k) == k = 0

\* switch len(coords) { case 1: case 2: case 3: default: panic(...) }
EvalRejects(k) == k \notin {1, 2, 3}

Passes(r) == IF r.fn \in FbmFns THEN Octaves(r.oct) ELSE 1
Dims(r) == IF r.fn \in PkgFns THEN 2 ELSE r.k

\* How a call ends before any noise is evaluated; NoRes when it goes on.
Enter(r) ==
    CASE r.fn = "Simplex.Eval" ->
            IF EvalRejects(r.k) THEN ResPanic("InvalidDimensionCount") ELSE NoRes
      [] r.fn = "FBM.Eval" ->
            IF 3 + r.k < 4 THEN ResPanic("InvalidDimensionCount")
            ELSE IF Octaves(r.oct) = 0 THEN ResZero
            ELSE IF EvalRejects(r.k) THEN ResPanic("InvalidDimensionCount")
            ELSE NoRes
      [] r.fn = "FBM2" -> IF Octaves(r.oct) = 0 THEN ResZero ELSE NoRes
      [] r.fn = "Noise2" -> NoRes

\* The d-th coordinate of the call, scaled by the frequency.
Coord(r, d, freq) == (r.x + d - 1) * freq

\* uint32 values as two 16-bit limbs, least significant first; 0x9E3779B1.
Golden32 == <<31153, 40503>>
ToLimbs32(v) == <<v % LimbBase, (v \div LimbBase) % LimbBase>>
Add32(a, b) ==
    <<(a[1] + b[1]) % LimbBase, (a[2] + b[2] + ((a[1] + b[1]) \div LimbBase)) % LimbBase>>
Mul32(o, g) ==
    <<(o * g[1]) % LimbBase, (o * g[2] + ((o * g[1]) \div LimbBase)) % LimbBase>>

\* The index taken from the second byte of the seed.
SeedIndexSecondByte(so) == (so[1] \div 256) % 256

\* si := int(seed) & 255
SeedIndex(so) == so[1] % 256

\* so := seed + uint32(o)*0x9E3779B1 in FBM2; Noise2 is called with the seed.
OctaveSeed(r, o) ==
    IF r.fn = "FBM2" THEN Add32(ToLimbs32(r.seed), Mul32(o, Golden32))
    ELSE ToLimbs32(r.seed)

\* The evaluators of an instance take no seed: FBM.Eval calls
\* f.simplex.Eval(scaledCoords...) in every octave.
SeedOffset(t, r, o) == IF r.fn \in PkgFns THEN SeedIndex(OctaveSeed(r, o)) ELSE 0

\* A mask of one bit more: i & 511.
WrapWide(i, n) == i % (2 * n)

\* i & 255: the index modulo the half of the table.
Wrap(i, n) == i % n

\* An entry of a table; an index outside the table panics in Go, and what is
\* read then does not matter.
At(s, a) == IF a + 1 \in DOMAIN s THEN s[a + 1] ELSE 0
InTable(s, idxs) == \A n \in DOMAIN idxs : 0 <= idxs[n] /\ idxs[n] < Len(s)

\* The indices at which an evaluation reads the permutation table, in the
\* order of the reads: pp[0], pp[int(j1)], pp[1] of noise2D and Noise2
\* (noise1D is noise2D with y = 0); in noise3D, for each of the four corners,
\* perm[kk+k], perm[jj+j+..], perm[ii+i+..].
PermIndices(t, r, o, freq) ==
    LET n == Half(t)
        P(a) == At(t.perm, a)
    IN  IF Dims(r) <= 2
        THEN LET j == IF Dims(r) = 1 THEN 0 ELSE Coord(r, 2, freq)
                 pj == Wrap(j + SeedOffset(t, r, o), n)
             IN  <<pj, pj + (1 - r.tri), pj + 1>>
        ELSE LET ii == Wrap(Coord(r, 1, freq), n)
                 jj == Wrap(Coord(r, 2, freq), n)
                 kk == Wrap(Coord(r, 3, freq), n)
                 Corner(i, j, k) ==
                    <<kk + k, jj + j + P(kk + k), ii + i + P(jj + j + P(kk + k))>>
             IN  Corner(0, 0, 0) \o Corner(1 - r.tri, 0, r.tri)
                    \o Corner(1 - r.tri, 1, r.tri) \o Corner(1, 1, 1)

\* What it keeps of them: p0, p1, p2, or gi0..gi3 (the last read of each
\* corner, % 12).
PermReads(t, r, o, freq) ==
    LET ix == PermIndices(t, r, o, freq)
    IN  IF Dims(r) <= 2
        THEN <<At(t.perm, ix[1]), At(t.perm, ix[2]), At(t.perm, ix[3])>>
        ELSE <<At(t.perm, ix[3]) % GradCount, At(t.perm, ix[6]) % GradCount,
               At(t.perm, ix[9]) % GradCount, At(t.perm, ix[12]) % GradCount>>

\* The indices at which it reads the gradients then: gg[p0], gg[int(i1)+p1],
\* gg[1+p2] with gg := grad2[i&255:], or grad3[gi0..gi3].
GradIndices(t, r, o, freq, ps) ==
    LET gi == Wrap(Coord(r, 1, freq) + SeedOffset(t, r, o), Half(t))
    IN  IF Dims(r) <= 2
        THEN <<gi + ps[1], gi + r.tri + ps[2], gi + 1 + ps[3]>>
        ELSE ps

GradTable(t, r) == IF Dims(r) <= 2 THEN t.grad2 ELSE t.grad3

GradReads(t, r, o, freq, ps) ==
    [n \in DOMAIN GradIndices(t, r, o, freq, ps) |->
        At(GradTable(t, r), GradIndices(t, r, o, freq, ps)[n])]

\* An evaluation that keeps the last index it read in the table.
AfterEvalCaching(t, ps) == [t EXCEPT !.perm[1] = ps[1]]

\* The tables after noise2D, noise3D or Noise2 ran: they assign to no entry.
AfterEval(t, ps) == t

\* freq and amp after e octaves (b^e), totalAmp after n octaves.
RECURSIVE Pow(_, _)
Pow(b, e) == IF e = 0 THEN 1 ELSE b * Pow(b, e - 1)
RECURSIVE GeomSum(_, _)
GeomSum(b, n) == IF n = 0 THEN 0 ELSE GeomSum(b, n - 1) + Pow(b, n - 1)

\* A return of the sum whatever totalAmp is.
FbmReturnUnguarded(r, tot, terms) == ResVal(terms)

\* if totalAmp > 0 { return sum / totalAmp }; return 0
FbmReturn(r, tot, terms) ==
    IF r.fn \in FbmFns /\ tot <= 0 THEN ResZero ELSE ResVal(terms)

\* Octave o (from 0) of the call reads inside the tables.
ReadsInTable(t, r, o) ==
    /\ InTable(t.perm, PermIndices(t, r, o, Pow(r.lac, o)))
    /\ InTable(GradTable(t, r),
               GradIndices(t, r, o, Pow(r.lac, o), PermReads(t, r, o, Pow(r.lac, o))))

\* The call run alone on the tables t.
RunAlone(t, r) ==
    IF Enter(r) # NoRes THEN Enter(r)
    ELSE IF \E o \in 0..(Passes(r) - 1) : ~ReadsInTable(t, r, o)
    THEN ResPanic("IndexOutOfRange")
    ELSE FbmReturn(r, GeomSum(r.gain, Passes(r)),
            [o \in 1..Passes(r) |->
                [amp |-> Pow(r.gain, o - 1),
                 g |-> GradReads(t, r, o - 1, Pow(r.lac, o - 1),
                                 PermReads(t, r, o - 1, Pow(r.lac, o - 1)))]])

IdleEv ==
    [pc |-> "idle", req |-> NoEvReq, o |-> 0, amp |-> 0, tot |-> 0, freq |-> 0,
     ps |-> << >>, terms |-> << >>, evals |-> 0, res |-> NoRes, alone |-> NoRes]

InitSimplex ==
    /\ SSIIdle /\ RandomIdle
    /\ pkg = ZeroTables(Len(table))
    /\ simplex = ZeroTables(PermSize)
    /\ build = [pc |-> "start", i |-> 0]
    /\ ev = [c \in Callers |-> IdleEv]

\* init() runs before anything else of the program.
PkgInit ==
    /\ build.pc = "start"
    /\ pkg' = pkgInit
    /\ build' = [pc |-> "main", i |-> 0]
    /\ UNCHANGED <<simplex, ev>>

\* NewSimplex: s := &Simplex{}, then the first loop of initWithSeed.
NewSimplex ==
    /\ build.pc = "main"
    /\ simplex' = [simplex EXCEPT !.perm = Identity(simplex.perm, PermSize)]
    /\ build' = [pc |-> "shuffle", i |-> PermSize - 1]
    /\ UNCHANGED <<pkg, ev>>

\* One pass of for i := 255; i > 0; i-- { j := rng.Intn(i + 1); swap }.
Shuffle ==
    /\ build.pc = "shuffle"
    /\ \E j \in 0..build.i :
        simplex' = [simplex EXCEPT !.perm = Swap(simplex.perm, build.i, j)]
    /\ build' = [pc |-> IF build.i > 1 THEN "shuffle" ELSE "mirror", i |-> build.i - 1]
    /\ UNCHANGED <<pkg, ev>>

Mirror ==
    /\ build.pc = "mirror"
    /\ simplex' = [simplex EXCEPT !.perm = Duplicate(simplex.perm, PermSize)]
    /\ build' = [build EXCEPT !.pc = "grad"]
    /\ UNCHANGED <<pkg, ev>>

\* The gradient loop; initWithSeed and NewSimplex return.
FillGradients ==
    /\ build.pc = "grad"
    /\ simplex' = Gradients(simplex)
    /\ build' = [build EXCEPT !.pc = "done"]
    /\ UNCHANGED <<pkg, ev>>

Tbl(fn) == IF fn \in PkgFns THEN pkg ELSE simplex

\* A caller calls Simplex.Eval, FBM.Eval, Noise2 or FBM2.
Invoke(c) ==
    /\ build.pc = "done"
    /\ ev[c].pc = "idle"
    /\ \E r \in ReqsOf(c) :
        ev' = [ev EXCEPT ![c] =
                 [pc |-> IF Enter(r) = NoRes THEN "perm" ELSE "done",
                  req |-> r, o |-> 0, amp |-> 1, tot |-> 0, freq |-> 1,
                  ps |-> << >>, terms |-> << >>, evals |-> 0,
                  res |-> Enter(r), alone |-> RunAlone(Tbl(r.fn), r)]]
    /\ UNCHANGED <<pkg, simplex, build>>

\* The noise function of the current octave reads the permutation table.
ReadPerm(c) ==
    /\ ev[c].pc = "perm"
    /\ LET ps == PermReads(Tbl(ev[c].req.fn), ev[c].req, ev[c].o, ev[c].freq)
           inside == InTable(Tbl(ev[c].req.fn).perm,
                             PermIndices(Tbl(ev[c].req.fn), ev[c].req, ev[c].o, ev[c].freq))
       IN  /\ ev' = [ev EXCEPT ![c].pc = IF inside THEN "grad" ELSE "done",
                               ![c].ps = ps, ![c].evals = @ + 1,
                               ![c].res = IF inside THEN NoRes
                                          ELSE ResPanic("IndexOutOfRange")]
           /\ IF ev[c].req.fn \in PkgFns
              THEN pkg' = AfterEval(pkg, ps) /\ UNCHANGED simplex
              ELSE simplex' = AfterEval(simplex, ps) /\ UNCHANGED pkg
    /\ UNCHANGED build

\* It reads the gradients and returns; sum += amp * noise, totalAmp += amp,
\* freq *= lacunarity, amp *= gain; after the last octave the call returns
\* sum / totalAmp, or 0 when totalAmp is not positive.
ReadGrad(c) ==
    /\ ev[c].pc = "grad"
    /\ LET e == ev[c]
           terms == Append(e.terms,
                      [amp |-> e.amp,
                       g |-> GradReads(Tbl(e.req.fn), e.req, e.o, e.freq, e.ps)])
           tot == e.tot + e.amp
           last == e.o + 1 >= Passes(e.req)
           inside == InTable(GradTable(Tbl(e.req.fn), e.req),
                             GradIndices(Tbl(e.req.fn), e.req, e.o, e.freq, e.ps))
       IN  ev' = [ev EXCEPT ![c] =
                    [e EXCEPT
                        !.terms = terms, !.tot = tot, !.o = e.o + 1,
                        !.freq = e.freq * e.req.lac, !.amp = e.amp * e.req.gain,
                        !.ps = << >>,
                        !.pc = IF last \/ ~inside THEN "done" ELSE "perm",
                        !.res = IF ~inside THEN ResPanic("IndexOutOfRange")
                                ELSE IF ~last THEN NoRes
                                ELSE FbmReturn(e.req, tot, terms)]]
    /\ UNCHANGED <<pkg, simplex, build>>

\* The caller has its result.
Finish(c) ==
    /\ ev[c].pc = "done"
    /\ ev' = [ev EXCEPT ![c] = IdleEv]
    /\ UNCHANGED <<pkg, simplex, build>>

NextSimplex ==
    /\ \/ PkgInit
       \/ NewSimplex
       \/ Shuffle
       \/ Mirror
       \/ FillGradients
       \/ \E c \in Callers : Invoke(c) \/ ReadPerm(c) \/ ReadGrad(c) \/ Finish(c)
    /\ UNCHANGED <<ssiVars, randVars>>

SpecSimplex == InitSimplex /\ [][NextSimplex]_vars

\* The first n entries of p are a permutation of 0..n-1.
IsPermutation(p, n) == {p[i] : i \in 1..n} = 0..(n - 1)
Mirrored(p, n) == \A i \in 1..n : p[i + n] = p[i]

\* ------------------------------------------------------------------ claims
RECURSIVE SqDistFrom(_, _, _)
SqDistFrom(p, q, a) ==
    IF a > Len(p) THEN 0
    ELSE (p[a] - q[a]) * (p[a] - q[a]) + SqDistFrom(p, q, a + 1)

\* The squared Euclidean distance of two points (ticks, or pixels).
SqDist(p, q) == SqDistFrom(p, q, 1)

\* No element occurs twice in the sequence.
NoDup(s) == Cardinality(Range(s)) = Len(s)

\* The lattice cells within the radii.
Rect(r) ==
    IF Len(r) = 1 THEN {<<x>> : x \in (-r[1])..r[1]}
    ELSE {<<x, y>> : x \in (-r[1])..r[1], y \in (-r[2])..r[2]}

\* The sampler of iteration i runs a sweep (its radii are set and >= 1).
Sweeping(i) == rad[i] # << >> /\ \A a \in DOMAIN rad[i] : rad[i][a] >= 1

\* C1: at every point of an SSI1 / SSI2 iteration (also under Sparse1 and
\* Sparse2) any two points accepted so far by the grid test are at Euclidean
\* distance >= 1.0.
C1_MinDistance ==
    \A i \in Iters :
        UsesGrid(cfg[i].kind) =>
            \A m, n \in DOMAIN pts[i] :
                m < n => SqDist(pts[i][m], pts[i][n]) >= Unit * Unit

\* An SSI2 iteration that accepted three points and rejected every attempt of
\* some cell, two of its points being closer than 1.5 units.
C1_Witness ==
    \E i \in Iters :
        /\ cfg[i].kind = "SSI2"
        /\ Len(pts[i]) >= 3
        /\ Len(tried[i]) > Len(pts[i]) + 1
        /\ \E m, n \in DOMAIN pts[i] :
            m < n /\ SqDist(pts[i][m], pts[i][n]) < (3 * Res) * (3 * Res)

\* C2: the producer hands over one point at a time and does nothing while the
\* consumer holds it; once the callback has returned stop, the iteration is
\* over at once (no further callback, cell or jitter attempt), at every
\* tryCell call site and through the projections.
C2_Step(i) ==
    /\ stopped[i] => pc[i] = "done"
    /\ stopped'[i] => pc'[i] = "done"
    /\ pc[i] = "done" =>
        /\ pc'[i] = "done" /\ out'[i] = out[i] /\ tried'[i] = tried[i]
        /\ pts'[i] = pts[i] /\ grid'[i] = grid[i] /\ pos'[i] = pos[i] /\ att'[i] = att[i]
    /\ pc[i] = "yield" =>
        /\ out'[i] = out[i] /\ tried'[i] = tried[i]
        /\ pts'[i] = pts[i] /\ grid'[i] = grid[i]
    /\ Len(out'[i]) <= Len(out[i]) + 1
    /\ out'[i] # out[i] => pc'[i] = "yield" /\ SubSeq(out'[i], 1, Len(out[i])) = out[i]

C2_StopIsFinal == [][\A i \in Iters : C2_Step(i)]_vars

\* A projection stopped by its consumer before the end of the sweep, after a
\* point the projection had skipped.
C2_Witness ==
    \E i \in Iters :
        /\ IsWrapper(cfg[i].kind)
        /\ stopped[i] /\ pc[i] = "done"
        /\ Len(pts[i]) > Len(out[i])
        /\ pos[i] < Len(order[i])

\* C3: every coordinate yielded by a sparse projection lies in [0, size) of
\* its axis.
C3_InBounds ==
    \A i \in Iters :
        IsWrapper(cfg[i].kind) =>
            \A n \in DOMAIN out[i] : \A a \in DOMAIN out[i][n] :
                0 <= out[i][n][a] /\ out[i][n][a] < Size(cfg[i])[a]

\* A projection that yielded two points and dropped one.
C3_Witness ==
    \E i \in Iters :
        /\ cfg[i].kind \in {"Sparse2", "SparseFill3"}
        /\ Len(out[i]) >= 2
        /\ Len(pts[i]) > Len(out[i])

\* C4: two iterations with the same seed and the same parameters emit the
\* same sequence: at any time the shorter output is a prefix of the longer,
\* and two complete iterations emitted the same points in the same order.
C4_Deterministic ==
    \A i, k \in Iters :
        cfg[i] = cfg[k] =>
            /\ \A n \in 1..Min(Len(out[i]), Len(out[k])) : out[i][n] = out[k][n]
            /\ (pc[i] = "done" /\ pc[k] = "done" /\ ~stopped[i] /\ ~stopped[k])
                => out[i] = out[k]

\* Two complete iterations of the same call that emitted two points or more
\* and had a cell without a point.
C4_Witness ==
    \E i, k \in Iters :
        /\ i # k /\ cfg[i] = cfg[k]
        /\ pc[i] = "done" /\ pc[k] = "done" /\ ~stopped[i] /\ ~stopped[k]
        /\ Len(out[i]) >= 2
        /\ Len(tried[i]) > Len(pts[i])

\* C5: an iteration interleaved with another one accepts exactly the points
\* it accepts alone: the points a run on a grid holding its own points only
\* accepts from the hash values; and its grid holds its own points' bits and
\* no other.
RECURSIVE OwnGrid(_, _)
OwnGrid(i, n) ==
    IF n = 0 THEN NewGrid(cfg[i].kind, rad[i])
    ELSE GridSet(cfg[i].kind, OwnGrid(i, n - 1), pts[i][n])

\* The number of points accepted before the m-th tried cell.
PointsBefore(i, m) ==
    Cardinality({n \in DOMAIN from[i] :
        \E l \in 1..(m - 1) : tried[i][l] = from[i][n]})

\* The point the m-th tried cell gives in a run alone, from attempt t on:
\* {} for none, {<< >>} if a hash value needed was never read.
RECURSIVE AlonePoint(_, _, _)
AlonePoint(i, m, t) ==
    IF t >= MaxAttempts(cfg[i].kind) THEN {}
    ELSE IF HashKey(i, tried[i][m], t) \notin DOMAIN hv THEN {<< >>}
    ELSE LET p == Candidate(tried[i][m], hv[HashKey(i, tried[i][m], t)])
             nb == PointsBefore(i, m)
         IN  IF IsValid(cfg[i].kind, OwnGrid(i, nb), SubSeq(pts[i], 1, nb), p)
             THEN {p}
             ELSE AlonePoint(i, m, t + 1)

C5_PrivateGrid ==
    \A i \in Iters :
        (Sweeping(i) /\ pc[i] \in {"sweep", "yield", "done"}) =>
            /\ grid[i] = OwnGrid(i, Len(pts[i]))
            /\ \A m \in DOMAIN tried[i] :
                (m < Len(tried[i]) \/ pc[i] # "sweep" \/ att[i] = 0) =>
                    AlonePoint(i, m, 0)
                        = {pts[i][n] : n \in {l \in DOMAIN from[i] : from[i][l] = tried[i][m]}}

\* Two different calls, both in the middle of their sweeps, each holding a
\* point handed to its consumer, with different bits in their grids.
C5_Witness ==
    \E i, k \in Iters :
        /\ cfg[i] # cfg[k]
        /\ UsesGrid(cfg[i].kind) /\ UsesGrid(cfg[k].kind)
        /\ pc[i] = "yield" /\ pc[k] = "yield"
        /\ Len(pts[i]) >= 2 /\ Len(pts[k]) >= 1
        /\ grid[i].bits # grid[k].bits

\* C6: an SSI1 / SSI2 iteration makes at most 3 (1D) or 2 (2D) jitter attempts
\* per cell, tries no cell twice and none outside the radii, emits at most one
\* point per cell, hence at most (2*r1+1)*(2*r2+1) points; unless the consumer
\* stops it, it ends having tried every cell; and it ends.
CellCount(r) == IF Len(r) = 1 THEN 2 * r[1] + 1 ELSE (2 * r[1] + 1) * (2 * r[2] + 1)

C6_Safe(i) ==
    (Dim(cfg[i].kind) <= 2 /\ Sweeping(i)) =>
        /\ att[i] < (IF Dim(cfg[i].kind) = 1 THEN 3 ELSE 2)
        /\ NoDup(tried[i])
        /\ Range(tried[i]) \subseteq Rect(rad[i])
        /\ NoDup(from[i])
        /\ Len(pts[i]) = Len(from[i])
        /\ Range(from[i]) \subseteq Range(tried[i])
        /\ Len(pts[i]) <= CellCount(rad[i])
        /\ (pc[i] = "done" /\ ~stopped[i]) => Range(tried[i]) = Rect(rad[i])

C6_Terminates ==
    /\ [](\A i \in Iters : C6_Safe(i))
    /\ <>(\A i \in Iters : pc[i] = "done")

\* An SSI2 iteration that ran to the end of its sweep, the last cell having
\* used both attempts.
C6_Witness ==
    \E i \in Iters :
        /\ cfg[i].kind = "SSI2" /\ Sweeping(i)
        /\ pc[i] = "done" /\ ~stopped[i]
        /\ Len(tried[i]) = CellCount(rad[i])
        /\ Len(pts[i]) < Len(tried[i])

\* C7: SSI1 tries the cells in the order 0, +1, -1, ..., +r1, -r1, each once;
\* the cells of the emitted points are a subsequence of that order.
Rank1(c) == IF c[1] = 0 THEN 1 ELSE IF c[1] > 0 THEN 2 * c[1] ELSE 2 * (-c[1]) + 1

C7_CenterOut ==
    \A i \in Iters :
        (Dim(cfg[i].kind) = 1 /\ Sweeping(i)) =>
            /\ \A n \in DOMAIN tried[i] : Rank1(tried[i][n]) = n
            /\ Len(tried[i]) <= 2 * rad[i][1] + 1
            /\ \A m, n \in DOMAIN from[i] : m < n => Rank1(from[i][m]) < Rank1(from[i][n])
            /\ (pc[i] = "done" /\ ~stopped[i]) => Len(tried[i]) = 2 * rad[i][1] + 1

\* A complete SSI1 sweep of radius 2 in which a cell emitted nothing and a
\* point of cell -1 or -2 was emitted.
C7_Witness ==
    \E i \in Iters :
        /\ cfg[i].kind = "SSI1" /\ rad[i] = <<2>>
        /\ pc[i] = "done" /\ ~stopped[i]
        /\ Len(from[i]) < Len(tried[i])
        /\ \E n \in DOMAIN from[i] : from[i][n][1] < 0

\* C8: the ring order of SSI2.  A cell's place in the sweep: its ring
\* max(|x|, |y|), then its edge (top y = -r, bottom y = +r, left x = -r,
\* right x = +r, the corners belonging to top and bottom), then its
\* coordinate along the edge; the sweep is in order when each cell tried comes
\* after the one tried before it.
Ring(c) == Max(Abs(c[1]), Abs(c[2]))
EdgeOf(c) ==
    IF c[2] = -Ring(c) THEN 0
    ELSE IF c[2] = Ring(c) THEN 1
    ELSE IF c[1] = -Ring(c) THEN 2 ELSE 3
EdgeKey(c) == <<Ring(c), EdgeOf(c), IF EdgeOf(c) <= 1 THEN c[1] ELSE c[2]>>

\* The list-based sweep: per ring the columns (top cell, bottom cell) in
\* increasing x, then the rows (left cell, right cell) in increasing y.
ColumnKey(c) ==
    IF Abs(c[2]) = Ring(c)
    THEN <<Ring(c), 0, 2 * c[1] + (IF c[2] = -Ring(c) THEN 0 ELSE 1)>>
    ELSE <<Ring(c), 1, 2 * c[2] + (IF c[1] = -Ring(c) THEN 0 ELSE 1)>>

LexLess(k, l) ==
    \/ k[1] < l[1]
    \/ k[1] = l[1] /\ k[2] < l[2]
    \/ k[1] = l[1] /\ k[2] = l[2] /\ k[3] < l[3]

\* Every cell tried lies in the rectangle, none is tried twice, and a complete
\* sweep has tried them all.
Covers(i) ==
    /\ Range(tried[i]) \subseteq Rect(rad[i])
    /\ NoDup(tried[i])
    /\ (pc[i] = "done" /\ ~stopped[i]) => Range(tried[i]) = Rect(rad[i])

\* C8 as stated: every SSI2 (bitmap grid and list-based) tries whole edges in
\* the order top, bottom, left, right.
C8_EdgeOrderAllVersions ==
    \A i \in Iters :
        (Dim(cfg[i].kind) = 2 /\ Sweeping(i)) =>
            /\ Covers(i)
            /\ \A n \in 1..(Len(tried[i]) - 1) :
                LexLess(EdgeKey(tried[i][n]), EdgeKey(tried[i][n + 1]))

\* C8 (amended): the grid-based SSI2 tries (0,0), then per ring the whole top
\* edge, the whole bottom edge, the left edge and the right edge, each in
\* increasing coordinate; the list-based SSI2 tries per ring the columns in
\* increasing x (top cell, then bottom cell) and then the rows in increasing y
\* (left cell, then right cell); both try every cell of the rectangle exactly
\* once and no cell outside it.
C8_RingOrder ==
    \A i \in Iters :
        (Dim(cfg[i].kind) = 2 /\ Sweeping(i)) =>
            /\ Covers(i)
            /\ tried[i] # << >> => tried[i][1] = <<0, 0>>
            /\ \A n \in 1..(Len(tried[i]) - 1) :
                IF UsesGrid(cfg[i].kind)
                THEN LexLess(EdgeKey(tried[i][n]), EdgeKey(tried[i][n + 1]))
                ELSE LexLess(ColumnKey(tried[i][n]), ColumnKey(tried[i][n + 1]))

\* A complete grid-based sweep whose second ring is clipped by r2 < r1.
C8_Witness ==
    \E i \in Iters :
        /\ cfg[i].kind = "SSI2" /\ rad[i] = <<2, 1>>
        /\ pc[i] = "done" /\ ~stopped[i]
        /\ Len(tried[i]) = 15

\* C9: any two positions yielded by one Sparse1 / Sparse2 call are at
\* Euclidean distance >= gap.
C9_MinGap ==
    \A i \in Iters :
        cfg[i].kind \in {"Sparse1", "Sparse2"} =>
            \A m, n \in DOMAIN out[i] :
                m < n => SqDist(out[i][m], out[i][n]) >= cfg[i].gap * cfg[i].gap

\* C10: a projection called with a size <= 0 or gap <= 0 yields nothing:
\* the consumer is never called and no sampler iteration is started.
C10_EmptyOnInvalid ==
    \A i \in Iters :
        (/\ IsWrapper(cfg[i].kind)
         /\ \/ cfg[i].gap <= 0
            \/ cfg[i].w <= 0
            \/ Dim(cfg[i].kind) >= 2 /\ cfg[i].h <= 0
            \/ Dim(cfg[i].kind) = 3 /\ cfg[i].d <= 0) =>
            /\ pc[i] \in {"call", "done"}
            /\ rad[i] = << >> /\ order[i] = << >> /\ grid[i] = NoGrid
            /\ tried[i] = << >> /\ pts[i] = << >> /\ out[i] = << >>

\* Sparse2 returned for gap = 0 with positive sizes.
C10_Witness ==
    \E i \in Iters :
        /\ cfg[i].kind = "Sparse2" /\ cfg[i].gap = 0
        /\ cfg[i].w > 0 /\ cfg[i].h > 0
        /\ pc[i] = "done"

\* C11: for every hash, Float32 and Float64 return a value in [0,1) and
\* White a value in [-1,1): the upper bound is never reached after the
\* conversion of the integer to a float and the division.
C11_UnitInterval ==
    (resp.status = "ok" /\ req.fn \in FloatFns) => LessThanOne(resp)

BoundFns == {"IntN", "UintN"}
InvalidBound(r) == IF r.fn = "IntN" THEN r.n <= 0 ELSE r.n = 0

\* C12: with at least one coordinate, IntN fails if and only if n <= 0 and
\* UintN if and only if n = 0, with InvalidBound and without a result; for
\* every other n the result is hash mod n and lies in [0, n).
C12_BoundedInt ==
    (req.fn \in BoundFns /\ resp.status # "pending" /\ req.k >= 1) =>
        /\ (resp.status = "panic") <=> InvalidBound(req)
        /\ InvalidBound(req) => resp.err = "InvalidBound"
        /\ ~InvalidBound(req) =>
            /\ resp.int = ModByPowers(req.h, req.n)
            /\ 0 <= resp.int /\ resp.int < req.n

\* IntN gave a non-zero result for a hash whose top bit is set.
C12_Witness ==
    /\ req.fn = "IntN" /\ resp.status = "ok"
    /\ req.n > 1 /\ resp.int > 0 /\ req.h[4] >= 2^15

RangeFns == {"IntIn", "UintIn"}

\* C13: rangeInclusive fails with InvalidRange if and only if lo > hi; for
\* every lo <= hi of the type, lo = hi and the whole type included, it returns
\* lo + (h mod (hi - lo + 1)), which lies in [lo, hi].
C13_RangeInclusive ==
    (req.fn \in RangeFns /\ resp.status # "pending") =>
        /\ (resp.status = "panic") <=> req.lo > req.hi
        /\ resp.status = "panic" => resp.err = "InvalidRange"
        /\ resp.status = "ok" =>
            /\ resp.int = req.lo + ModByPowers(req.h, req.hi - req.lo + 1)
            /\ req.lo <= resp.int /\ resp.int <= req.hi

\* The range is the whole signed type and the call gave its upper end.
C13_Witness ==
    /\ req.fn = "IntIn" /\ resp.status = "ok"
    /\ \A v \in SignedRange : req.lo <= v /\ v <= req.hi
    /\ resp.int = req.hi

CoordFns == HashFns \cup BoundFns

\* C14 as stated: every variadic hash function called with zero coordinates
\* fails with EmptyCoordinates.
C14_EmptyAlwaysEmptyCoordinates ==
    (req.fn \in CoordFns /\ resp.status # "pending" /\ req.k = 0) =>
        resp.status = "panic" /\ resp.err = "EmptyCoordinates"

\* C14: a variadic hash function called with zero coordinates fails without a
\* result: with EmptyCoordinates, except that IntN and UintN with an invalid
\* bound fail with InvalidBound, the bound being tested first.  With one or
\* more coordinates no call fails on the coordinate count.
C14_CoordinateCount ==
    (req.fn \in CoordFns /\ resp.status # "pending") =>
        /\ (req.k = 0 /\ ~(req.fn \in BoundFns /\ InvalidBound(req))) =>
            resp.status = "panic" /\ resp.err = "EmptyCoordinates"
        /\ (req.k = 0 /\ req.fn \in BoundFns /\ InvalidBound(req)) =>
            resp.status = "panic" /\ resp.err = "InvalidBound"
        /\ req.k >= 1 => resp.err # "EmptyCoordinates"

\* UintN with a valid bound and no coordinate failed with EmptyCoordinates.
C14_Witness ==
    /\ req.fn = "UintN" /\ req.n > 0 /\ req.k = 0
    /\ resp.status = "panic" /\ resp.err = "EmptyCoordinates"

NormFns == {"Norm64", "Norm32"}

\* C19: in Norm64 and Norm32 the value u1 passed to the logarithm is never
\* exactly 0, so the Box-Muller result is a finite number.
C19_FiniteNormal ==
    (req.fn \in NormFns /\ resp.status = "ok") =>
        ~IsZero(resp.num) /\ resp.cls = "finite"

Supported == {1, 2, 3}
Done(c, fns) == ev[c].pc = "done" /\ ev[c].req.fn \in fns

\* C15 as stated: Simplex.Eval and FBM.Eval fail with InvalidDimensionCount
\* for every number of coordinates other than 1, 2 or 3, whatever the other
\* arguments are, and never fail on the count when it is 1, 2 or 3.
C15_WhateverTheArguments ==
    \A c \in Callers : Done(c, EvalFns) =>
        /\ ev[c].req.k \notin Supported =>
            ev[c].res.status = "panic" /\ ev[c].res.err = "InvalidDimensionCount"
        /\ ev[c].req.k \in Supported => ev[c].res.status = "ok"

\* C15: Simplex.Eval fails with InvalidDimensionCount exactly when the number
\* of coordinates is not 1, 2 or 3.  FBM.Eval fails so with no coordinate, and
\* with 4 or more when octaves >= 1; with 4 or more coordinates and
\* octaves <= 0 it returns 0 without failing.  Neither fails with 1, 2 or 3.
C15_DimensionCount ==
    \A c \in Callers : Done(c, EvalFns) =>
        LET r == ev[c].req
            counted == r.fn = "Simplex.Eval" \/ r.k = 0 \/ r.oct >= 1
        IN  /\ (r.k \notin Supported /\ counted) =>
                ev[c].res.status = "panic" /\ ev[c].res.err = "InvalidDimensionCount"
            /\ (r.k \notin Supported /\ ~counted) => ev[c].res = ResZero
            /\ r.k \in Supported => ev[c].res.status = "ok"

\* FBM.Eval with one octave and one coordinate too many failed.
C15_Witness ==
    /\ Done(1, {"FBM.Eval"})
    /\ ev[1].req.k = MaxDims /\ ev[1].req.oct = 1
    /\ ev[1].res.status = "panic"

\* C16: the first half of the shared table and of an instance's table is a
\* permutation (after every step of the shuffle), and the second half is
\* its copy once the table is built.
C16_Permutation ==
    /\ build.pc # "start" =>
        IsPermutation(pkg.perm, Len(table)) /\ Mirrored(pkg.perm, Len(table))
    /\ build.pc \in {"shuffle", "mirror", "grad", "done"} =>
        IsPermutation(simplex.perm, PermSize)
    /\ build.pc \in {"grad", "done"} => Mirrored(simplex.perm, PermSize)

\* An instance is built and the shuffle moved its first and last entries.
C16_Witness ==
    /\ build.pc = "done"
    /\ simplex.perm[1] # 0 /\ simplex.perm[PermSize] # PermSize - 1
    /\ simplex.perm[2 * PermSize] = simplex.perm[PermSize]

C18_ReadOnly ==
    [][/\ build.pc = "done" => pkg' = pkg /\ simplex' = simplex
       /\ \A c \in Callers : ev'[c].pc = "done" => ev'[c].res = ev'[c].alone]_vars

\* A caller's FBM.Eval returned a value while the other caller was reading
\* the same instance.
C18_Witness ==
    /\ Done(1, {"FBM.Eval"})
    /\ ev[1].res.status = "ok" /\ ~ev[1].res.zero
    /\ ev[2].pc = "grad" /\ ev[2].req.fn = "Simplex.Eval"

\* floor(x*gap + w/2), rounding toward negative infinity.
FloorPixel(x, gap, w) == (x * gap * 2 + w * Unit) \div (2 * Unit)
FloorProject(c, p) == [a \in DOMAIN p |-> FloorPixel(p[a], c.gap, Size(c)[a])]
FloorProjection(c, ps) ==
    LET InTarget(q) == \A a \in DOMAIN q : 0 <= q[a] /\ q[a] < Size(c)[a]
    IN  SelectSeq([n \in DOMAIN ps |-> FloorProject(c, ps[n])], InTarget)

\* C20: Sparse1 and Sparse2 map each SSI point p to floor(p * gap + size/2)
\* per axis and yield it if and only if that floor lies in [0, size) on every
\* axis, for negative values of p * gap + size/2 too.
C20_FloorProjection ==
    \A i \in Iters :
        cfg[i].kind \in {"Sparse1", "Sparse2"} =>
            out[i] = FloorProjection(cfg[i], pts[i])

\* floor(coord / 0.5) + offset, per axis, packed as the grid packs it.
FloorSubCell(x) == x \div Res
FloorIndex(g, p) ==
    IF Len(p) = 1 THEN FloorSubCell(p[1]) + g.offX
    ELSE coordToIndex(FloorSubCell(p[1]) + g.offX, FloorSubCell(p[2]) + g.offY, g.w)

\* C21: the grid maps every coordinate, negative or not, to the sub-cell
\* floor(coord / 0.5) + offset: the occupied sub-cells are the floor indices
\* of the accepted points.
C21_FloorIndex ==
    \A i \in Iters :
        (UsesGrid(cfg[i].kind) /\ grid[i] # NoGrid) =>
            grid[i].bits = {FloorIndex(grid[i], pts[i][n]) : n \in DOMAIN pts[i]}

\* The sub-cell of a point on axis a, as IsValid and Set compute it.
GridCoord(g, p, a) == SubCell(p[a]) + (IF a = 1 THEN g.offX ELSE g.offY)
GridExtent(g, a) == IF a = 1 THEN g.w ELSE g.h
GridIndex(g, p) ==
    IF Len(p) = 1 THEN GridCoord(g, p, 1)
    ELSE coordToIndex(GridCoord(g, p, 1), GridCoord(g, p, 2), g.w)

\* C22: with radius*4+10 sub-cells per axis, the sub-cell of every candidate
\* (any cell of the sweep, any jitter in [-0.5, 0.5]) and its +-2
\* neighbourhood lie inside the grid, every accepted point is marked, and in
\* 2D distinct sub-cells have distinct bit indices.
C22_GridSufficient ==
    \A i \in Iters :
        (UsesGrid(cfg[i].kind) /\ grid[i] # NoGrid) =>
            /\ (pc[i] = "sweep" /\ att[i] = 0) =>
                \A j \in cfg[i].jit : \A a \in DOMAIN j : \A d \in NeighborRange :
                    LET gc == GridCoord(grid[i], Candidate(order[i][pos[i]], j), a) + d
                    IN  0 <= gc /\ gc < GridExtent(grid[i], a)
            /\ \A n \in DOMAIN pts[i] : GridIndex(grid[i], pts[i][n]) \in grid[i].bits
            /\ pts[i] = << >> =>
                Cardinality({coordToIndex(gx, gy, grid[i].w) :
                    gx \in 0..(grid[i].w - 1), gy \in 0..(grid[i].h - 1)})
                = grid[i].w * grid[i].h

\* SSI1 accepted the leftmost candidate there is: cell -r1, jitter -0.5.
C22_Witness ==
    \E i \in Iters :
        /\ cfg[i].kind = "SSI1" /\ rad[i][1] = MaxR
        /\ \E n \in DOMAIN pts[i] : pts[i][n][1] = -(MaxR * Unit) - Res

Evaluating(c) == ev[c].pc \in {"perm", "grad"}

\* C23: in FBM2 and in FBM.Eval octave o >= 1 evaluates the noise with the
\* seed offset by o * 0x9E3779B1, so that it does not use the noise function
\* of octave 0.
C23_OctaveSeedOffset ==
    \A c \in Callers :
        (Evaluating(c) /\ ev[c].req.fn \in FbmFns /\ ev[c].o >= 1) =>
            SeedOffset(Tbl(ev[c].req.fn), ev[c].req, ev[c].o)
                # SeedOffset(Tbl(ev[c].req.fn), ev[c].req, 0)

\* C24 as stated: for octaves > 0 and every gain, totalAmp is greater than 0
\* after the loop and the result is sum / totalAmp, never the fallback 0.
C24_TotalAmpPositive ==
    \A c \in Callers :
        (Done(c, FbmFns) /\ ev[c].res.status = "ok" /\ ev[c].req.oct > 0) =>
            ev[c].tot > 0 /\ ~ev[c].res.zero

\* C24: the fBM result is sum / totalAmp exactly when totalAmp > 0 after the
\* loop, and 0 otherwise; totalAmp is 1 + gain + ... + gain^(octaves-1), which
\* is greater than 0 for octaves > 0 and gain >= 0.
C24_Normalised ==
    \A c \in Callers :
        (Done(c, FbmFns) /\ ev[c].res.status = "ok") =>
            /\ ev[c].res.zero <=> ev[c].tot <= 0
            /\ ev[c].tot = GeomSum(ev[c].req.gain, Passes(ev[c].req))
            /\ (ev[c].req.oct > 0 /\ ev[c].req.gain >= 0) => ev[c].tot > 0
            /\ ~ev[c].res.zero => Len(ev[c].res.terms) = ev[c].req.oct

\* FBM2 with two octaves and gain -1 evaluated both and returned 0.
C24_Witness ==
    /\ Done(1, {"FBM2"})
    /\ ev[1].req.oct = 2 /\ ev[1].req.gain = -1
    /\ ev[1].evals = 2 /\ ev[1].res = ResZero

\* C29: every index an evaluation uses lies inside the table it reads (for
\* negative lattice coordinates too), the gradient index of a 3D corner lies
\* in 0..11, and no evaluation fails with an index out of range.
C29_IndicesInRange ==
    \A c \in Callers :
        LET e == ev[c]
            t == Tbl(e.req.fn)
        IN  /\ e.pc = "perm" => InTable(t.perm, PermIndices(t, e.req, e.o, e.freq))
            /\ e.pc = "grad" =>
                /\ InTable(GradTable(t, e.req), GradIndices(t, e.req, e.o, e.freq, e.ps))
                /\ Dims(e.req) = 3 => \A n \in DOMAIN e.ps : e.ps[n] \in 0..(GradCount - 1)
            /\ e.res.err # "IndexOutOfRange"

\* A 3D evaluation at a negative lattice coordinate returned a value.
C29_Witness ==
    /\ Done(1, {"Simplex.Eval"})
    /\ ev[1].req.k = 3 /\ ev[1].req.x < 0
    /\ ev[1].res.status = "ok"

\* C30: Noise2 depends on the seed through seed mod 256 only: a call returns
\* what the call at the same point with the seed reduced modulo 256 returns,
\* and in FBM2 octave o + 256 would read the table where octave o reads it.
C30_SeedLowByte ==
    \A c \in Callers :
        /\ Done(c, {"Noise2"}) =>
            ev[c].res = RunAlone(pkg, [ev[c].req EXCEPT !.seed = @ % 256])
        /\ (Evaluating(c) /\ ev[c].req.fn = "FBM2") =>
            /\ SeedOffset(pkg, ev[c].req, ev[c].o + 256) = SeedOffset(pkg, ev[c].req, ev[c].o)
            /\ PermIndices(pkg, ev[c].req, ev[c].o + 256, ev[c].freq)
                = PermIndices(pkg, ev[c].req, ev[c].o, ev[c].freq)

\* Noise2 with the seed 257 returned the value of the seed 1, which is not
\* the value of the seed 0.
C30_Witness ==
    /\ Done(1, {"Noise2"})
    /\ ev[1].req.seed = 257 /\ ev[1].res.status = "ok"
    /\ ev[1].res = RunAlone(pkg, [ev[1].req EXCEPT !.seed = 1])
    /\ ev[1].res # RunAlone(pkg, [ev[1].req EXCEPT !.seed = 0])

\* The fold of the first n coordinates: state(0) = seed, state(i+1) =
\* mix(encode(coord i), state(i) + i * GOLDEN64).
RECURSIVE FoldState(_, _, _)
FoldState(seed, coords, n) ==
    IF n = 0 THEN ZeroExtend(seed)
    ELSE xxhash64(ZeroExtend(coords[n].bits),
                  Add64(FoldState(seed, coords, n - 1), Mul64(Small64(n - 1), Golden64)))

\* C25: every hash path computes the fold: the loop of hashCoords and of
\* White holds state(i) after i coordinates, and what hashCoords, the
\* unrolled cases of White and the one-coordinate fast path hand to the
\* conversion is the fold of all the coordinates.
C25_SameFold ==
    LET c == hashing.call
    IN  /\ hashing.pc = "loop" => hashing.hash = FoldState(c.seed, c.coords, hashing.i)
        /\ hashing.pc = "return" => hashing.hash = FoldState(c.seed, c.coords, Len(c.coords))
        /\ (hashing.pc = "done" /\ resp.status = "ok") =>
            /\ hashing.hash = FoldState(c.seed, c.coords, Len(c.coords))
            /\ req.h = Limbs16(FoldState(c.seed, c.coords, Len(c.coords)))

\* The loop of hashCoords returned the hash of three coordinates.
C25_Witness ==
    /\ hashing.pc = "done" /\ resp.status = "ok"
    /\ hashing.call.path = "hashCoords" /\ Len(hashing.call.coords) = 3
    /\ hashing.i = 3

\* The sub-cell (gx, gy) of a bit index of the grid g.
BitCell(g, b) == <<b % g.w, b \div g.w>>
SubCellsApart(g, a, b) ==
    Max(Abs(BitCell(g, a)[1] - BitCell(g, b)[1]), Abs(BitCell(g, a)[2] - BitCell(g, b)[2]))
GridSeparated(i) ==
    (UsesGrid(cfg[i].kind) /\ grid[i] # NoGrid) =>
        /\ Cardinality(grid[i].bits) = Len(pts[i])
        /\ \A a, b \in grid[i].bits :
            a # b => SubCellsApart(grid[i], a, b) >= ssiNeighborRadius + 1

\* C26: in every state of an iteration with a grid, as many sub-cells are
\* occupied as points were accepted, two occupied sub-cells are 3 indices or
\* more apart (on one axis at least, in 2D), and a step of the iteration only
\* adds bits to its grid.
C26_GridInvariant ==
    /\ [](\A i \in Iters : GridSeparated(i))
    /\ [][\A i \in Iters : grid[i] # NoGrid => grid[i].bits \subseteq grid'[i].bits]_vars

\* SSI1 holds two occupied sub-cells exactly 3 indices apart, SSI2 two that
\* are 3 apart on one axis and less on the other.
C26_Witness ==
    \E i \in Iters :
        /\ cfg[i].kind \in {"SSI1", "SSI2"}
        /\ Len(pts[i]) >= 2
        /\ \E a, b \in grid[i].bits : SubCellsApart(grid[i], a, b) = ssiNeighborRadius + 1

\* C27: an iteration whose consumer stopped received a prefix of what a
\* complete iteration of the same call emits, of one point or more, and two
\* stopped iterations of the same call received the same points up to the
\* earlier stop; for SSI1, SSI2 and the projections.
C27_StopTruncates ==
    \A i, k \in Iters :
        (cfg[i] = cfg[k] /\ stopped[i]) =>
            /\ Len(out[i]) >= 1
            /\ (pc[k] = "done" /\ ~stopped[k]) =>
                /\ Len(out[i]) <= Len(out[k])
                /\ out[i] = SubSeq(out[k], 1, Len(out[i]))
            /\ (stopped[k] /\ Len(out[i]) <= Len(out[k])) =>
                out[i] = SubSeq(out[k], 1, Len(out[i]))

\* One iteration was stopped after its first point, the other one of the
\* same call completed with more points.
C27_Witness ==
    \E i, k \in Iters :
        /\ cfg[i] = cfg[k]
        /\ stopped[i] /\ Len(out[i]) = 1
        /\ pc[k] = "done" /\ ~stopped[k] /\ Len(out[k]) >= 2

ZeroRadius(i) == \E a \in DOMAIN cfg[i].r : cfg[i].r[a] <= 0
CentreCell(i) == [a \in DOMAIN cfg[i].r |-> 0]

\* C28: SSI1 and SSI2 (and the list-based versions) emit nothing if and only
\* if a radius is 0 or negative: then no cell is tried and the consumer is
\* never called; with radii of 1 or more the first attempt is made on the
\* centre cell and accepted, and the first point emitted is its point.
C28_EmptyIffNoRadius ==
    \A i \in Iters :
        ~IsWrapper(cfg[i].kind) =>
            /\ pc[i] = "done" => (out[i] = << >> <=> ZeroRadius(i))
            /\ ZeroRadius(i) =>
                pc[i] \in {"ssi", "done"} /\ tried[i] = << >> /\ out[i] = << >>
            /\ (~ZeroRadius(i) /\ pc[i] # "ssi") =>
                /\ order[i][1] = CentreCell(i)
                /\ (att[i] = 0 /\ pos[i] = 1) \/ tried[i] # << >>
                /\ tried[i] # << >> =>
                    /\ tried[i][1] = CentreCell(i)
                    /\ from[i] # << >> /\ from[i][1] = CentreCell(i)
                    /\ out[i] # << >> /\ out[i][1] = pts[i][1]
                    /\ \A a \in DOMAIN pts[i][1] : Abs(pts[i][1][a]) <= Res

\* SSI2 returned without a point for the radii (1, 0), and SSI1 completed
\* with the centre cell's point first for the radius MaxR.
C28_Witness ==
    \E i \in Iters :
        /\ pc[i] = "done"
        /\ \/ cfg[i].kind = "SSI2" /\ cfg[i].r = <<1, 0>> /\ out[i] = << >>
           \/ cfg[i].kind = "SSI1" /\ cfg[i].r = <<MaxR>> /\ Len(out[i]) >= 2

====
